---- MODULE Spec2Model ----
(***************************************************************************)
(* Wallet connectivity and on-chain transaction orchestration of the      *)
(* Xwawa front end: the Web3ModalManager session, the draw pipeline       *)
(* (startDraw / drawFromContract in its three shipped variants and the    *)
(* XwawaTest console helper) and the marketplace payment monitor.         *)
(***************************************************************************)
EXTENDS Integers, Sequences, FiniteSets, TLC

(***************************************************************************)
(* Bounds of the model.                                                    *)
(***************************************************************************)
\* connectWallet invocations that may be in flight at once
MaxConnects == 2
\* disconnectWallet invocations that may be suspended at an await at once
MaxDisconnects == 2

(***************************************************************************)
(* Values.                                                                 *)
(***************************************************************************)
\* JavaScript null for string-valued fields (provider, web3, account)
NULL == "null"
\* JavaScript null for the numeric chainId field
NullChainId == -1
\* ContractConfig.chainId and its hard-coded default
TargetId == 1952
\* chains the wallet may be on: Ethereum mainnet and the configured chain
Chains == {1, TargetId}
Accounts == {"0xA", "0xB"}
\* account lists a provider may answer or notify with
AccountLists == {<<>>, <<"0xA">>, <<"0xB">>}

VARIABLES
    \* ---- Web3ModalManager (unnamed/part_004) ----
    provider, web3, account, chainId, isConnected,
    useSimpleWallet,        \* this.useSimpleWallet, fixed by init()
    providerHasDisconnect,  \* whether the provider object exposes disconnect()
    subscribed,             \* handlers registered on the provider by subscribeToEvents
    connPc,                 \* position of each connectWallet invocation
    discAtProvider,         \* disconnectWallet calls suspended at provider.disconnect()
    discAtCache,            \* disconnectWallet calls suspended at clearCachedProvider()
    \* ---- the wallet itself (environment) ----
    walletAccounts, walletChain,
    \* ---- the lottery page (unnamed/part_003, js/lottery.js, js/dist) ----
    script,                 \* which build of the draw flow the page loaded
    hasEthereum,            \* window.ethereum exists (injected provider origin)
    abiDrawTakesTimes,      \* the loaded ABI declares draw(uint256) rather than draw()
    lotteryIsConnected,     \* the page's own isConnected
    userAccount,            \* the page's own userAccount
    isSpinning,
    pc,                     \* position of the startDraw / XwawaTest.draw invocation
    drawCost,               \* the page's cached cost per draw, in whole tokens
    times, totalCost,       \* locals of drawFromContract
    finalPrize,             \* local of startDraw: id of the prize to display
    providerRequests,       \* wallet_* requests issued by ensureCorrectChain
    txLog,                  \* transactions handed to the wallet in this invocation
    receipt, prizeId,       \* receipt of the draw and the prize code parsed from it
    ui,                     \* what the page last surfaced for this invocation
    shown, persisted,       \* prize shown in the result modal / sent to the backend
    \* ---- the chain (environment) ----
    drawCostOnChain, chainAllowance,
    \* ---- the marketplace payment monitor (js/contract-config.js) ----
    paymentAddress,        \* ContractConfig.paymentAddress ("" when not configured)
    initialBalanceWei,     \* the baseline balance, NoBalance while null
    baselineOrder,         \* the order whose getBalance stored it, 0 while null
    paymentMonitorInterval,\* window.paymentMonitorInterval, the last timer id
    activeTimers,          \* ids of the interval timers not yet cleared
    balance,               \* the balance of the payment address on chain
    orders,                \* orders created so far; the last is #order-id
    createPc,              \* createOrder: "idle" or "pending" (the 1500 ms timer)
    createOrderBtnHidden,  \* createOrderBtn carries class hidden
    checkPaymentBtnHidden, \* checkPaymentBtn carries class hidden
    baselineReads,         \* orders whose baseline getBalance is in flight
    ticks,                 \* interval callbacks in flight
    ticksStarted,          \* interval callbacks started so far
    check,                 \* checkPaymentStatus in flight, or NoCheck
    checksStarted,         \* manual checks started so far
    fires,                 \* calls of notifyPaymentReceived, in order
    \* ---- the server: executeWithRetry (server/index.js) ----
    retryPc,               \* "idle", "executing", "sleeping", "returned", "thrown"
    attempt,               \* the loop variable of executeWithRetry
    clock,                 \* time in ms since the call
    wakeAt,                \* when the pending setTimeout is due
    attemptTimes,          \* the time at which each pool.execute was called
    attemptErrors,         \* the error each failed attempt met
    retryOutcome,          \* what the call returned or threw, NoOutcome before
    \* ---- the server: the connection pool (server/db.js) ----
    dbConfigMissing,       \* DB_CONFIG_MISSING
    pool,                  \* the module's pool: NoPool or the instance's number
    poolsCreated,          \* instances made by mysql.createPool so far
    returnedPools,         \* what getPool() calls returned while `pool` was set
    endCalls,              \* how often pool.end() was called on each instance
    handlers,              \* position of each signal handler invocation
    exited,                \* process.exit(0) was reached
    \* ---- chain assurance: ensureCorrectChain and the post-connect check ----
    switchErr,             \* what the first switch of ensureCorrectChain rejected with
    switchPc,              \* position of the switchNetwork call of the callback
    switchRequests,        \* requests that call sent to this.provider
    switchNetworkErr,      \* what its first switch request rejected with
    caught,                \* the error handed to the callback's .catch
    \* ---- connectViaWalletConnect / connectViaWalletConnectMobile ----
    projectId,             \* ContractConfig.walletConnectProjectId ("" when not set)
    wcPc,                  \* "idle", "loading", "init", "pairing"
    wcLog,                 \* what the call in hand has done so far, in order
    wcThrown,              \* what the last call threw, NoWcError when nothing
    \* ---- overlapping startDraw invocations and their timers ----
    invocations,           \* invocation id -> where that startDraw() stands
    lockOwner,             \* the invocation that set isSpinning, 0 when released
    spinTimers,            \* invocations whose spinWheel end timer is pending
    spinEnds,              \* invocations whose completion callback is pending
    drawButtonDisabled,    \* #draw-button.disabled
    \* ---- POST /api/lottery/claim (server/index.js) ----
    lotteryRecord,         \* the row of lottery_records the requests name
    claims,                \* request id -> its position, body and response
    dbNow,                 \* NOW() of the database, a logical clock
    \* ---- the lottery page's wallet listeners ----
    accountsChangedRegistered  \* connectWallet() of the page has registered
                               \* handleAccountsChanged on window.ethereum

sessionVars == <<provider, web3, account, chainId, isConnected, useSimpleWallet,
                 providerHasDisconnect, subscribed, connPc, discAtProvider,
                 discAtCache>>
walletVars == <<walletAccounts, walletChain>>
drawVars == <<script, hasEthereum, abiDrawTakesTimes, lotteryIsConnected, userAccount,
              isSpinning, pc, drawCost, times, totalCost, finalPrize, providerRequests, txLog,
              receipt, prizeId, ui, shown, persisted>>
\* the page's state but its connection
drawState == <<script, hasEthereum, abiDrawTakesTimes, isSpinning, pc, drawCost, times,
               totalCost, finalPrize, providerRequests, txLog, receipt, prizeId, ui,
               shown, persisted>>
\* what a draw never changes
pageConfig == <<script, hasEthereum, abiDrawTakesTimes, lotteryIsConnected, userAccount,
                drawCost>>
chainVars == <<drawCostOnChain, chainAllowance>>
payVars == <<paymentAddress, initialBalanceWei, baselineOrder, paymentMonitorInterval, activeTimers,
             balance, orders, createPc, createOrderBtnHidden, checkPaymentBtnHidden,
             baselineReads, ticks, ticksStarted, check, checksStarted, fires>>
retryVars == <<retryPc, attempt, clock, wakeAt, attemptTimes, attemptErrors,
               retryOutcome>>
poolVars == <<dbConfigMissing, pool, poolsCreated, returnedPools, endCalls, handlers,
              exited>>
serverVars == <<retryVars, poolVars>>
postConnectVars == <<switchPc, switchRequests, switchNetworkErr, caught>>
switchVars == <<switchErr, postConnectVars>>
wcVars == <<projectId, wcPc, wcLog, wcThrown>>
\* the subsystems an action of another subsystem leaves alone
lockVars == <<invocations, lockOwner, spinTimers, spinEnds, drawButtonDisabled>>
claimVars == <<lotteryRecord, claims, dbNow>>
restVars == <<wcVars, accountsChangedRegistered, lockVars, claimVars>>
vars == <<sessionVars, walletVars, drawVars, chainVars, payVars, serverVars, switchVars,
          restVars>>

(***************************************************************************)
(* Number conversions used by the session.                                 *)
(***************************************************************************)
\* the hexadecimal digits of n, most significant first ("0x" prefix dropped)
RECURSIVE HexDigits(_)
HexDigits(n) == IF n < 16 THEN <<n>> ELSE Append(HexDigits(n \div 16), n % 16)

\* parseInt(s, 16) on a string of hexadecimal digits
RECURSIVE ParseInt16(_)
ParseInt16(s) ==
    IF Len(s) = 0 THEN 0
    ELSE 16 * ParseInt16(SubSeq(s, 1, Len(s) - 1)) + s[Len(s)]

(***************************************************************************)
(* Web3ModalManager                                                        *)
(***************************************************************************)
\* the constructor; simple and disconnectable say how init() ended and what
\* the provider object offers
Constructed(simple, disconnectable) ==
    /\ provider = NULL
    /\ web3 = NULL
    /\ account = NULL
    /\ chainId = NullChainId
    /\ isConnected = FALSE
    /\ useSimpleWallet = simple
    /\ providerHasDisconnect = disconnectable
    /\ subscribed = FALSE
    /\ connPc = [i \in 1..MaxConnects |-> "idle"]
    /\ discAtProvider = 0
    /\ discAtCache = 0

SessionInit == \E simple, disconnectable \in BOOLEAN : Constructed(simple, disconnectable)

WalletInit ==
    /\ walletAccounts \in AccountLists
    /\ walletChain \in Chains

\* the state reset of disconnectWallet (lines 607-611)
ResetState ==
    /\ provider' = NULL
    /\ web3' = NULL
    /\ account' = NULL
    /\ chainId' = NullChainId
    /\ isConnected' = FALSE

\* disconnectWallet() up to its first await, or to its end when it awaits nothing
disconnectWallet ==
    IF provider # NULL /\ providerHasDisconnect
    THEN /\ discAtProvider + discAtCache < MaxDisconnects
         /\ discAtProvider' = discAtProvider + 1
         /\ UNCHANGED <<provider, web3, account, chainId, isConnected, discAtCache>>
    ELSE IF ~useSimpleWallet
    THEN /\ discAtProvider + discAtCache < MaxDisconnects
         /\ discAtCache' = discAtCache + 1
         /\ UNCHANGED <<provider, web3, account, chainId, isConnected, discAtProvider>>
    ELSE /\ ResetState
         /\ UNCHANGED <<discAtProvider, discAtCache>>

\* connectWallet(): entry, up to the await that obtains the provider
ConnectWallet_Call(i) ==
    /\ connPc[i] = "idle"
    /\ connPc' = [connPc EXCEPT ![i] = "getProvider"]
    /\ UNCHANGED <<provider, web3, account, chainId, isConnected, useSimpleWallet,
                   providerHasDisconnect, subscribed, discAtProvider, discAtCache>>
    /\ UNCHANGED <<walletVars, drawVars, chainVars, payVars, serverVars, switchVars, restVars>>

\* the provider is obtained (window.ethereum, detect-provider, EIP-6963 or the
\* modal) and wrapped in a Web3 instance, or none is found and the call throws
ConnectWallet_Provider(i) ==
    /\ connPc[i] = "getProvider"
    /\ \E found \in BOOLEAN :
         IF found
         THEN /\ provider' = "ethereum"
              /\ web3' = "ethereum"
              /\ connPc' = [connPc EXCEPT ![i] = "getAccounts"]
         ELSE /\ connPc' = [connPc EXCEPT ![i] = "idle"]
              /\ UNCHANGED <<provider, web3>>
    /\ UNCHANGED <<account, chainId, isConnected, useSimpleWallet,
                   providerHasDisconnect, subscribed, discAtProvider, discAtCache>>
    /\ UNCHANGED <<walletVars, drawVars, chainVars, payVars, serverVars, switchVars, restVars>>

\* await web3.eth.getAccounts() settles
ConnectWallet_Accounts(i) ==
    /\ connPc[i] = "getAccounts"
    /\ \E ok \in BOOLEAN :
         IF ok /\ Len(walletAccounts) # 0
         THEN /\ account' = walletAccounts[1]
              /\ connPc' = [connPc EXCEPT ![i] = "getChainId"]
         ELSE /\ connPc' = [connPc EXCEPT ![i] = "idle"]
              /\ UNCHANGED account
    /\ UNCHANGED <<provider, web3, chainId, isConnected, useSimpleWallet,
                   providerHasDisconnect, subscribed, discAtProvider, discAtCache>>
    /\ UNCHANGED <<walletVars, drawVars, chainVars, payVars, serverVars, switchVars, restVars>>

\* await web3.eth.getChainId() settles; on success the session is marked
\* connected and subscribeToEvents registers the handlers on this.provider
ConnectWallet_ChainId(i) ==
    /\ connPc[i] = "getChainId"
    /\ \E ok \in BOOLEAN :
         IF ok
         THEN /\ chainId' = walletChain
              /\ isConnected' = TRUE
              /\ subscribed' = (subscribed \/ provider # NULL)
         ELSE UNCHANGED <<chainId, isConnected, subscribed>>
    /\ connPc' = [connPc EXCEPT ![i] = "idle"]
    /\ UNCHANGED <<provider, web3, account, useSimpleWallet,
                   providerHasDisconnect, discAtProvider, discAtCache>>
    /\ UNCHANGED <<walletVars, drawVars, chainVars, payVars, serverVars, switchVars, restVars>>

\* the page calls disconnectWallet()
DisconnectWallet_Call ==
    /\ disconnectWallet
    /\ UNCHANGED <<useSimpleWallet, providerHasDisconnect, subscribed, connPc>>
    /\ UNCHANGED <<walletVars, drawVars, chainVars, payVars, serverVars, switchVars, restVars>>

\* await this.provider.disconnect() settles
DisconnectWallet_ProviderDone ==
    /\ discAtProvider > 0
    /\ discAtProvider' = discAtProvider - 1
    /\ \E ok \in BOOLEAN :
         IF ~ok
         THEN UNCHANGED <<provider, web3, account, chainId, isConnected, discAtCache>>
         ELSE IF ~useSimpleWallet
         THEN /\ discAtCache' = discAtCache + 1
              /\ UNCHANGED <<provider, web3, account, chainId, isConnected>>
         ELSE /\ ResetState
              /\ UNCHANGED discAtCache
    /\ UNCHANGED <<useSimpleWallet, providerHasDisconnect, subscribed, connPc>>
    /\ UNCHANGED <<walletVars, drawVars, chainVars, payVars, serverVars, switchVars, restVars>>

\* await this.web3Modal.clearCachedProvider() settles
DisconnectWallet_CacheDone ==
    /\ discAtCache > 0
    /\ discAtCache' = discAtCache - 1
    /\ \E ok \in BOOLEAN :
         IF ok THEN ResetState
         ELSE UNCHANGED <<provider, web3, account, chainId, isConnected>>
    /\ UNCHANGED <<useSimpleWallet, providerHasDisconnect, subscribed, connPc,
                   discAtProvider>>
    /\ UNCHANGED <<walletVars, drawVars, chainVars, payVars, serverVars, switchVars, restVars>>

\* handleAccountsChanged of the lottery page: it runs when the page's own
\* connectWallet() registered it (checkWalletConnection, which restores a
\* connection at page load, registers nothing)
handleAccountsChanged(accounts) ==
    IF ~accountsChangedRegistered
    THEN UNCHANGED <<lotteryIsConnected, userAccount>>
    ELSE IF Len(accounts) = 0
    THEN /\ lotteryIsConnected' = FALSE
         /\ userAccount' = NULL
    ELSE /\ userAccount' = accounts[1]
         /\ UNCHANGED lotteryIsConnected

\* the wallet's account list changes; the session's "accountsChanged" handler
\* runs when subscribeToEvents has registered it, and so does the page's
AccountsChanged ==
    \E accounts \in AccountLists :
        /\ accounts # walletAccounts
        /\ walletAccounts' = accounts
        /\ IF ~subscribed
           THEN UNCHANGED <<provider, web3, account, chainId, isConnected,
                            discAtProvider, discAtCache>>
           ELSE IF Len(accounts) = 0
           THEN disconnectWallet
           ELSE /\ account' = accounts[1]
                /\ UNCHANGED <<provider, web3, chainId, isConnected,
                               discAtProvider, discAtCache>>
        /\ handleAccountsChanged(accounts)
        /\ UNCHANGED <<useSimpleWallet, providerHasDisconnect, subscribed, connPc,
                       walletChain, drawState, chainVars, payVars, serverVars,
                       switchVars, restVars>>

\* the wallet moves to chain c; the "chainChanged" handler, when registered,
\* parses the hexadecimal chain id it is handed
SetWalletChain(c) ==
    /\ walletChain' = c
    /\ IF subscribed /\ c # walletChain
       THEN chainId' = ParseInt16(HexDigits(c))
       ELSE UNCHANGED chainId

\* the user switches the active chain in the wallet
ChainChanged ==
    \E c \in Chains :
        /\ c # walletChain
        /\ SetWalletChain(c)
        /\ UNCHANGED <<provider, web3, account, isConnected, useSimpleWallet,
                       providerHasDisconnect, subscribed, connPc, discAtProvider,
                       discAtCache, walletAccounts, drawVars, chainVars, payVars,
                       serverVars, switchVars, restVars>>

\* the provider emits "disconnect"; the handler calls disconnectWallet()
ProviderDisconnect ==
    /\ subscribed
    /\ disconnectWallet
    /\ UNCHANGED <<useSimpleWallet, providerHasDisconnect, subscribed, connPc>>
    /\ UNCHANGED <<walletVars, drawVars, chainVars, payVars, serverVars, switchVars, restVars>>

(***************************************************************************)
(* connectViaWalletConnect and connectViaWalletConnectMobile: the two      *)
(* functions take the same steps (the mobile one also listens for          *)
(* display_uri), so one call in hand stands for either.                    *)
(***************************************************************************)
\* walletConnectProjectId as js/contract-config.js ships it, a value too
\* short to be a project id, and none
ProjectIds == {"01ee15712187949f2a2dadb65cda86ae", "demo", ""}

NoWcError == "none"

\* every configuration counts as carrying a project id
AnyProjectId(id) == TRUE

\* projectId && String(projectId).length > 8
HasProjectId(id) == id # "" /\ Len(id) > 8

\* the page as loaded, with walletConnectProjectId = id
WcLoaded(id) ==
    /\ projectId = id
    /\ wcPc = "idle"
    /\ wcLog = <<>>
    /\ wcThrown = NoWcError

\* entry: without a project id the function throws at once; with one it
\* awaits ensureWalletConnectV2Loaded()
WalletConnect_Call ==
    /\ wcPc = "idle"
    /\ IF HasProjectId(projectId)
       THEN /\ wcPc' = "loading"
            /\ wcLog' = <<"ensureWalletConnectV2Loaded">>
            /\ wcThrown' = NoWcError
       ELSE /\ wcLog' = <<>>
            /\ wcThrown' = "notConfigured"
            /\ UNCHANGED wcPc
    /\ UNCHANGED <<projectId, sessionVars, walletVars, drawVars, chainVars, payVars,
                   serverVars, switchVars, accountsChangedRegistered, lockVars, claimVars>>

\* ensureWalletConnectV2Loaded() settles; with window.EthereumProvider at hand
\* EP.init({projectId, ...}) is awaited
WalletConnect_Loaded ==
    /\ wcPc = "loading"
    /\ \E ok \in BOOLEAN :
         IF ok
         THEN /\ wcPc' = "init"
              /\ wcLog' = Append(wcLog, "EthereumProvider.init")
              /\ UNCHANGED wcThrown
         ELSE /\ wcPc' = "idle"
              /\ wcThrown' = "notLoaded"
              /\ UNCHANGED wcLog
    /\ UNCHANGED <<projectId, sessionVars, walletVars, drawVars, chainVars, payVars,
                   serverVars, switchVars, accountsChangedRegistered, lockVars, claimVars>>

\* EP.init settles; then provider.connect() is awaited
WalletConnect_Init ==
    /\ wcPc = "init"
    /\ \E ok \in BOOLEAN :
         IF ok
         THEN /\ wcPc' = "pairing"
              /\ wcLog' = Append(wcLog, "provider.connect")
              /\ UNCHANGED wcThrown
         ELSE /\ wcPc' = "idle"
              /\ wcThrown' = "initFailed"
              /\ UNCHANGED wcLog
    /\ UNCHANGED <<projectId, sessionVars, walletVars, drawVars, chainVars, payVars,
                   serverVars, switchVars, accountsChangedRegistered, lockVars, claimVars>>

\* provider.connect() settles.  After a pairing this.provider and this.web3
\* are set and this.fetchAccountAndChain() is called: the class defines no
\* such method, the call throws a TypeError, and neither the account nor the
\* chain id is read, nor subscribeToEvents reached
WalletConnect_Paired ==
    /\ wcPc = "pairing"
    /\ wcPc' = "idle"
    /\ \E ok \in BOOLEAN :
         IF ok
         THEN /\ provider' = "walletconnect"
              /\ web3' = "walletconnect"
              /\ wcLog' = Append(wcLog, "paired")
              /\ wcThrown' = "TypeError"
         ELSE /\ wcLog' = Append(wcLog, "rejected")
              /\ wcThrown' = "rejected"
              /\ UNCHANGED <<provider, web3>>
    /\ UNCHANGED <<account, chainId, isConnected, useSimpleWallet,
                   providerHasDisconnect, subscribed, connPc, discAtProvider,
                   discAtCache>>
    /\ UNCHANGED <<projectId, walletVars, drawVars, chainVars, payVars, serverVars,
                   switchVars, accountsChangedRegistered, lockVars, claimVars>>

\* the session with the remote-session channel as its only way to connect
WcNext ==
    \/ WalletConnect_Call
    \/ WalletConnect_Loaded
    \/ WalletConnect_Init
    \/ WalletConnect_Paired
    \/ DisconnectWallet_Call
    \/ DisconnectWallet_ProviderDone
    \/ DisconnectWallet_CacheDone
    \/ AccountsChanged
    \/ ChainChanged

SessionNext ==
    \/ \E i \in 1..MaxConnects : ConnectWallet_Call(i)
    \/ \E i \in 1..MaxConnects : ConnectWallet_Provider(i)
    \/ \E i \in 1..MaxConnects : ConnectWallet_Accounts(i)
    \/ \E i \in 1..MaxConnects : ConnectWallet_ChainId(i)
    \/ DisconnectWallet_Call
    \/ DisconnectWallet_ProviderDone
    \/ DisconnectWallet_CacheDone
    \/ AccountsChanged
    \/ ChainChanged
    \/ ProviderDisconnect

(***************************************************************************)
(* JavaScript values met by the outcome parsing of drawFromContract.       *)
(* A decoded event field is undefined, a decimal string (web3 hands        *)
(* uint values over as strings) or an array of decimal strings.            *)
(***************************************************************************)
Undef == [t |-> "undefined", d |-> <<>>, a |-> <<>>]
Str(ds) == [t |-> "string", d |-> ds, a |-> <<>>]
Arr(xs) == [t |-> "array", d |-> <<>>, a |-> xs]

\* results of Number(...): a number, NaN, or the initial null of prizeId
Num(n) == [t |-> "number", n |-> n]
NaN == [t |-> "NaN", n |-> 0]
JsNull == [t |-> "null", n |-> 0]

\* the value of a string of decimal digits
RECURSIVE Decimal(_)
Decimal(ds) ==
    IF Len(ds) = 0 THEN 0
    ELSE 10 * Decimal(SubSeq(ds, 1, Len(ds) - 1)) + ds[Len(ds)]

\* Number(v)
NumberOf(v) ==
    CASE v.t = "undefined" -> NaN
      [] v.t = "string" -> Num(Decimal(v.d))
      [] v.t = "array" -> IF Len(v.a) = 0 THEN Num(0)
                          ELSE IF Len(v.a) = 1 THEN Num(Decimal(v.a[1]))
                          ELSE NaN

\* x ?? y
Coalesce(x, y) == IF x.t = "undefined" THEN y ELSE x

\* a parse that reads scalars only
ScalarOnly(wt) == IF wt.t = "array" THEN Undef ELSE wt

\* Array.isArray(wt) ? wt[0] : wt
FirstIfArray(wt) ==
    IF wt.t = "array"
    THEN (IF Len(wt.a) = 0 THEN Undef ELSE Str(wt.a[1]))
    ELSE wt

\* truthiness of a field value
Truthy(v) ==
    CASE v.t = "undefined" -> FALSE
      [] v.t = "string" -> Len(v.d) # 0
      [] v.t = "array" -> TRUE

(***************************************************************************)
(* Receipts.  events is absent, a map keyed by event name (web3) or an     *)
(* array of decoded events (ethers style).  An event of the map may lack   *)
(* returnValues (web3 stores an array there when it fired more than once). *)
(***************************************************************************)
NoEvent == [present |-> FALSE, rv |-> FALSE, prizeId |-> Undef, idx1 |-> Undef,
            winningType |-> Undef]
Event(p, i, w) == [present |-> TRUE, rv |-> TRUE, prizeId |-> p, idx1 |-> i,
                   winningType |-> w]
EventWithoutValues == [present |-> TRUE, rv |-> FALSE, prizeId |-> Undef,
                       idx1 |-> Undef, winningType |-> Undef]

PrizeFields == {Undef, Str(<<3>>), Str(<<1, 2>>)}
IndexFields == {Undef, Str(<<4>>)}
WinningTypeFields == {Undef, Str(<<2>>), Arr(<<>>), Arr(<< <<1>> >>),
                      Arr(<< <<1>>, <<0>> >>)}

DrawResultEvents == {NoEvent, EventWithoutValues}
                    \cup {Event(p, i, Undef) : p \in PrizeFields, i \in IndexFields}
DrawEvents == {NoEvent, EventWithoutValues}
              \cup {Event(p, Undef, w) : p \in {Undef, Str(<<3>>)},
                                         w \in WinningTypeFields}

NoReceipt == [shape |-> "pending", DrawResult |-> NoEvent, Draw |-> NoEvent,
              name |-> "", args |-> NoEvent]
MapReceipts == {[shape |-> "map", DrawResult |-> dr, Draw |-> d, name |-> "",
                 args |-> NoEvent] : dr \in DrawResultEvents, d \in DrawEvents}
\* ethers-style receipts: an array holding one decoded event
ArrayReceipts == {[shape |-> "array", DrawResult |-> NoEvent, Draw |-> NoEvent,
                   name |-> n, args |-> Event(p, i, w)] :
                      n \in {"DrawResult", "Draw", "Transfer"},
                      p \in {Undef, Str(<<3>>)}, i \in IndexFields,
                      w \in {Undef, Str(<<2>>), Arr(<< <<1>> >>)}}
\* a receipt without events
BareReceipt == [shape |-> "none", DrawResult |-> NoEvent, Draw |-> NoEvent,
                name |-> "", args |-> NoEvent]
Receipts == MapReceipts \cup ArrayReceipts \cup {BareReceipt}

\* lines 2182-2196: the structured event map
ParseEventMap(r) ==
    IF r.shape = "map" /\ r.DrawResult.present /\ r.DrawResult.rv
    THEN NumberOf(Coalesce(r.DrawResult.prizeId, r.DrawResult.idx1))
    ELSE IF r.shape = "map" /\ r.Draw.present /\ r.Draw.rv
    THEN (IF r.Draw.prizeId.t # "undefined"
          THEN NumberOf(r.Draw.prizeId)
          ELSE IF r.Draw.winningType.t # "undefined"
          THEN NumberOf(FirstIfArray(r.Draw.winningType))
          ELSE JsNull)
    ELSE JsNull

\* lines 2198-2205: events given as an array
ParseEventArray(r, parsed) ==
    IF (parsed.t = "null" \/ parsed.t = "NaN") /\ r.shape = "array"
       /\ r.name \in {"DrawResult", "Draw"}
    THEN NumberOf(Coalesce(r.args.prizeId,
                           IF Truthy(r.args.winningType)
                           THEN FirstIfArray(r.args.winningType)
                           ELSE r.args.idx1))
    ELSE parsed

\* the prizeId drawFromContract returns for a receipt
ParsePrizeId(r) == ParseEventArray(r, ParseEventMap(r))

(***************************************************************************)
(* The draw pipeline of unnamed/part_003: startDraw, ensureCorrectChain,   *)
(* drawFromContract.                                                       *)
(***************************************************************************)
\* ids of the prizes table
PrizeIds == 0..5
\* the entry startDraw falls back to when prizes.find(...) finds nothing
DefaultPrizeId == 5
\* no prize (finalPrize = null, nothing shown, nothing persisted)
NoPrize == -1
\* values drawCost() may return, in the token's smallest unit
DrawCosts == {10, 20}
\* values allowance(owner, spender) may hold
Allowances == {0, 5, 10, 20}
\* values of the page's cached drawCost, in whole tokens
CachedCosts == {1, 2}
\* smallest units per token as used by toWei(x, 'ether'), scaled down
WeiPerEther == 10
\* the largest number of draws asked for in one invocation
MaxTimes == 2
\* the builds of the draw flow: unnamed/part_003, js/lottery.js and
\* js/dist/lottery.dev.js
Scripts == {"part_003", "js_lottery", "dist_lottery"}

\* the page after load, with the build, provider origin, ABI and connection given
PageLoaded(build, injected, takesTimes, connected) ==
    /\ script = build
    /\ hasEthereum = injected
    /\ abiDrawTakesTimes = takesTimes
    /\ lotteryIsConnected = connected
    /\ userAccount = IF connected THEN "0xA" ELSE NULL
    /\ isSpinning = FALSE
    /\ pc = "idle"
    /\ drawCost \in CachedCosts
    /\ times = 1
    /\ totalCost = 0
    /\ finalPrize = NoPrize
    /\ providerRequests = <<>>
    /\ txLog = <<>>
    /\ receipt = NoReceipt
    /\ prizeId = JsNull
    /\ ui = "none"
    /\ shown = NoPrize
    /\ persisted = NoPrize

DrawInit ==
    \E build \in Scripts, injected, takesTimes, connected \in BOOLEAN :
        PageLoaded(build, injected, takesTimes, connected)

ChainInit ==
    /\ drawCostOnChain \in DrawCosts
    /\ chainAllowance \in Allowances

\* a transaction handed to the wallet by contract.methods.<m>(...).send({from})
\* the account the wallet has selected: the first of its list, or none
SelectedAccount == IF Len(walletAccounts) = 0 THEN NULL ELSE walletAccounts[1]

Tx(kind, form, amount) ==
    [kind |-> kind, form |-> form, amount |-> amount, chain |-> walletChain,
     from |-> userAccount, selected |-> SelectedAccount, status |-> "pending",
     error |-> ""]

\* the log with its last, pending transaction settled
Settle(log, status) == [log EXCEPT ![Len(log)].status = status]

\* the log with its last, pending transaction rejected with error e
Reject(log, e) ==
    [log EXCEPT ![Len(log)].status = IF e.broadcast THEN "failed" ELSE "rejected",
                ![Len(log)].error = e.message]

\* errors a draw(times) submission may be rejected with
DrawErrors ==
    IF abiDrawTakesTimes
    THEN {[broadcast |-> FALSE, message |-> "User denied transaction signature"],
          [broadcast |-> TRUE, message |-> "Transaction has been reverted by the EVM"]}
    ELSE {[broadcast |-> FALSE, message |-> "invalid number of parameters"]}

\* errors of a draw() submission, which takes no argument
RetryErrors ==
    {[broadcast |-> FALSE, message |-> "User denied transaction signature"],
     [broadcast |-> TRUE, message |-> "Transaction has been reverted by the EVM"]}

\* a retry after whatever error the first submission met
RetryAfterAnyError(e) == TRUE

\* line 2174: String(e.message).includes('invalid number of parameters')
IsParamCountError(e) == e.message = "invalid number of parameters"

\* an approve that is not awaited to inclusion
ApproveNotAwaited(outcome) == TRUE

\* whether `await approve(...).send()` resolves, letting the code go on to
\* the draw: only when the approve transaction was included
ApproveResolves(outcome) == outcome = "included"

\* line 2164: toBN(currentAllowance).lt(totalCost)
NeedsApprove(allowance, total) == allowance < total

\* line 2165: the amount handed to approve
ApproveAmount(allowance, total) == total

\* line 851: prizes.find(p => p.id === prizeId) || prizes.find(p => p.id === 5)
FinalPrize(n) == IF n \in PrizeIds THEN n ELSE DefaultPrizeId

\* resetDrawState()
resetDrawState == isSpinning' = FALSE

\* the catch block of startDraw (lines 930-934)
DrawFailed ==
    /\ ui' = "failed"
    /\ resetDrawState
    /\ pc' = "idle"

\* the catch block around ensureCorrectChain (lines 818-822)
ChainCheckFailed ==
    /\ ui' = "chainError"
    /\ pc' = "idle"

(***************************************************************************)
(* Chain assurance: window.ContractConfig, the wallet_* requests and the   *)
(* errors a wallet rejects a switch request with.                          *)
(***************************************************************************)
\* window.ContractConfig as js/contract-config.js ships it: of the fields an
\* add-network request reads it sets chainId and rpcUrl, and neither
\* chainName nor nativeCurrency nor blockExplorerUrls
ContractConfig ==
    [chainId |-> 1952, rpcUrl |-> "https://xlayertestrpc.okx.com/terigon"]

\* window.ContractConfig.<field> || fallback
ConfigOr(field, fallback) ==
    IF field \in DOMAIN ContractConfig THEN ContractConfig[field] ELSE fallback

\* n.toString(16)
RECURSIVE ToString16(_)
ToString16(n) ==
    LET digits == <<"0", "1", "2", "3", "4", "5", "6", "7", "8", "9",
                    "a", "b", "c", "d", "e", "f">>
    IN  IF n < 16 THEN digits[n + 1]
        ELSE ToString16(n \div 16) \o digits[(n % 16) + 1]

\* { method: 'wallet_switchEthereumChain', params: [{ chainId: hexId }] }
SwitchRequest(targetId) ==
    [method |-> "wallet_switchEthereumChain",
     params |-> [chainId |-> "0x" \o ToString16(targetId)]]

\* { method: 'wallet_addEthereumChain', params: [params] }
AddRequest(targetId) ==
    [method |-> "wallet_addEthereumChain",
     params |-> [chainId |-> "0x" \o ToString16(targetId),
                 chainName |-> ConfigOr("chainName", "Chain " \o ToString(targetId)),
                 nativeCurrency |-> ConfigOr("nativeCurrency",
                                        [name |-> "ETH", symbol |-> "ETH", decimals |-> 18]),
                 rpcUrls |-> IF ConfigOr("rpcUrl", "") # ""
                             THEN <<ContractConfig.rpcUrl>> ELSE <<>>,
                 blockExplorerUrls |-> ConfigOr("blockExplorerUrls", <<>>)]]

\* no error: the request resolved
NoError == [code |-> 0, message |-> ""]
\* messages /Unrecognized chain ID|Unknown chain/i matches, among those below
UnknownChainMessages == {"Unrecognized chain ID", "unknown chain"}
\* what a wallet rejects a request with: 4902 is "chain not added", 4001 is
\* "rejected by the user"
SwitchErrors ==
    [code : {4902, 4001},
     message : UnknownChainMessages \cup {"User rejected the request."}]

\* every error sends ensureCorrectChain on to the add-network request
AnyErrorNeedsAdd(error) == TRUE

\* needAdd of ensureCorrectChain
needAdd(error) == error.code = 4902 \/ error.message \in UnknownChainMessages

\* isUnknownChain of switchNetwork
isUnknownChain(error) == error.code = 4902 \/ error.message \in UnknownChainMessages

\* the chain comparison never finds the wallet on the target chain
NeverMatches(currentId, targetId) == FALSE

\* currentId === targetId
ChainMatches(currentId, targetId) == currentId = targetId

\* no chain check has run: the page and the session as loaded
ChainCheckIdle ==
    /\ switchErr = NoError
    /\ switchPc = "idle"
    /\ switchRequests = <<>>
    /\ switchNetworkErr = NoError
    /\ caught = NoError

\* startDraw(): entry, up to the first await of ensureCorrectChain
StartDraw_Call ==
    /\ script = "part_003"
    /\ pc = "idle"
    /\ IF ~lotteryIsConnected
       THEN /\ ui' = "connectWallet"
            /\ UNCHANGED <<pc, providerRequests, txLog, receipt, prizeId, shown,
                           persisted, finalPrize, switchErr>>
       ELSE /\ ui' = "none"
            /\ providerRequests' = <<>>
            /\ switchErr' = NoError
            /\ txLog' = <<>>
            /\ receipt' = NoReceipt
            /\ prizeId' = JsNull
            /\ shown' = NoPrize
            /\ persisted' = NoPrize
            /\ finalPrize' = NoPrize
            /\ pc' = IF hasEthereum THEN "getChainId" ELSE "initContract"
    /\ UNCHANGED <<pageConfig, isSpinning, times, totalCost>>
    /\ UNCHANGED <<sessionVars, walletVars, chainVars, payVars, serverVars,
                   postConnectVars, restVars>>

\* ensureCorrectChain: await web3.eth.getChainId() settles
EnsureCorrectChain_ChainId ==
    /\ pc = "getChainId"
    /\ \E ok \in BOOLEAN :
         IF ~ok THEN ChainCheckFailed /\ UNCHANGED providerRequests
         ELSE IF ChainMatches(walletChain, TargetId)
         THEN /\ pc' = "initContract"
              /\ UNCHANGED <<ui, providerRequests>>
         ELSE /\ providerRequests' = Append(providerRequests, SwitchRequest(TargetId))
              /\ pc' = "switch"
              /\ UNCHANGED ui
    /\ UNCHANGED <<pageConfig, isSpinning, times, totalCost, finalPrize, txLog,
                   receipt, prizeId, shown, persisted>>
    /\ UNCHANGED <<sessionVars, walletVars, chainVars, payVars, serverVars, switchVars, restVars>>

\* ensureCorrectChain: the first wallet_switchEthereumChain request settles
EnsureCorrectChain_Switch ==
    /\ pc = "switch"
    /\ \E error \in SwitchErrors \cup {NoError} :
         IF error = NoError
         THEN /\ SetWalletChain(TargetId)
              /\ pc' = "initContract"
              /\ UNCHANGED <<ui, providerRequests, switchErr>>
         ELSE /\ switchErr' = error
              /\ UNCHANGED <<walletChain, chainId>>
              /\ IF needAdd(error)
                 THEN /\ providerRequests' = Append(providerRequests, AddRequest(TargetId))
                      /\ pc' = "add"
                      /\ UNCHANGED ui
                 ELSE ChainCheckFailed /\ UNCHANGED providerRequests
    /\ UNCHANGED <<pageConfig, isSpinning, times, totalCost, finalPrize, txLog,
                   receipt, prizeId, shown, persisted>>
    /\ UNCHANGED <<provider, web3, account, isConnected, useSimpleWallet,
                   providerHasDisconnect, subscribed, connPc, discAtProvider,
                   discAtCache, walletAccounts, chainVars, payVars, serverVars,
                   postConnectVars, restVars>>

\* ensureCorrectChain: the wallet_addEthereumChain request settles
EnsureCorrectChain_Add ==
    /\ pc = "add"
    /\ \E ok \in BOOLEAN :
         IF ok
         THEN /\ providerRequests' = Append(providerRequests, SwitchRequest(TargetId))
              /\ pc' = "switchAgain"
              /\ UNCHANGED ui
         ELSE ChainCheckFailed /\ UNCHANGED providerRequests
    /\ UNCHANGED <<pageConfig, isSpinning, times, totalCost, finalPrize, txLog,
                   receipt, prizeId, shown, persisted>>
    /\ UNCHANGED <<sessionVars, walletVars, chainVars, payVars, serverVars, switchVars, restVars>>

\* ensureCorrectChain: the switch request issued after the add settles
EnsureCorrectChain_SwitchAgain ==
    /\ pc = "switchAgain"
    /\ \E ok \in BOOLEAN :
         IF ok
         THEN /\ SetWalletChain(TargetId)
              /\ pc' = "initContract"
              /\ UNCHANGED ui
         ELSE ChainCheckFailed /\ UNCHANGED <<walletChain, chainId>>
    /\ UNCHANGED <<pageConfig, isSpinning, times, totalCost, finalPrize,
                   providerRequests, txLog, receipt, prizeId, shown, persisted>>
    /\ UNCHANGED <<provider, web3, account, isConnected, useSimpleWallet,
                   providerHasDisconnect, subscribed, connPc, discAtProvider,
                   discAtCache, walletAccounts, chainVars, payVars, serverVars, switchVars, restVars>>

\* the onWalletConnected callback WalletManager installs on the session: it
\* compares the chain id the connect has just read with ContractConfig.chainId
\* and, when they differ, calls switchNetwork, which runs up to its first
\* request; one such call is followed at a time
OnWalletConnected ==
    /\ isConnected
    /\ provider # NULL
    /\ switchPc = "idle"
    /\ switchNetworkErr' = NoError
    /\ caught' = NoError
    /\ IF ChainMatches(chainId, TargetId)
       THEN /\ switchRequests' = <<>>
            /\ UNCHANGED switchPc
       ELSE /\ switchRequests' = <<SwitchRequest(TargetId)>>
            /\ switchPc' = "switch"
    /\ UNCHANGED <<sessionVars, walletVars, drawVars, chainVars, payVars, serverVars,
                   switchErr, restVars>>

\* switchNetwork: the first wallet_switchEthereumChain request settles; an
\* error that is no unknown chain is thrown on, through WalletManager's
\* switchNetwork (which shows it and rethrows), to the callback's .catch
SwitchNetwork_Switch ==
    /\ switchPc = "switch"
    /\ \E error \in SwitchErrors \cup {NoError} :
         IF error = NoError
         THEN /\ SetWalletChain(TargetId)
              /\ switchPc' = "idle"
              /\ UNCHANGED <<switchRequests, switchNetworkErr, caught>>
         ELSE /\ switchNetworkErr' = error
              /\ UNCHANGED <<walletChain, chainId>>
              /\ IF /\ isUnknownChain(error)
                    /\ ContractConfig.chainId = TargetId
                    /\ ConfigOr("rpcUrl", "") # ""
                 THEN /\ switchRequests' = Append(switchRequests, AddRequest(TargetId))
                      /\ switchPc' = "add"
                      /\ UNCHANGED caught
                 ELSE /\ caught' = error
                      /\ switchPc' = "idle"
                      /\ UNCHANGED switchRequests
    /\ UNCHANGED <<provider, web3, account, isConnected, useSimpleWallet,
                   providerHasDisconnect, subscribed, connPc, discAtProvider,
                   discAtCache, walletAccounts, drawVars, chainVars, payVars,
                   serverVars, switchErr, restVars>>

\* switchNetwork: the wallet_addEthereumChain request settles
SwitchNetwork_Add ==
    /\ switchPc = "add"
    /\ \E addErr \in SwitchErrors \cup {NoError} :
         IF addErr = NoError
         THEN /\ switchRequests' = Append(switchRequests, SwitchRequest(TargetId))
              /\ switchPc' = "switchAgain"
              /\ UNCHANGED caught
         ELSE /\ caught' = addErr
              /\ switchPc' = "idle"
              /\ UNCHANGED switchRequests
    /\ UNCHANGED <<sessionVars, walletVars, drawVars, chainVars, payVars, serverVars,
                   switchErr, switchNetworkErr, restVars>>

\* switchNetwork: the switch request issued after the add settles
SwitchNetwork_SwitchAgain ==
    /\ switchPc = "switchAgain"
    /\ \E addErr \in SwitchErrors \cup {NoError} :
         IF addErr = NoError
         THEN /\ SetWalletChain(TargetId)
              /\ UNCHANGED caught
         ELSE /\ caught' = addErr
              /\ UNCHANGED <<walletChain, chainId>>
    /\ switchPc' = "idle"
    /\ UNCHANGED <<provider, web3, account, isConnected, useSimpleWallet,
                   providerHasDisconnect, subscribed, connPc, discAtProvider,
                   discAtCache, walletAccounts, drawVars, chainVars, payVars,
                   serverVars, switchErr, switchRequests, switchNetworkErr, restVars>>

\* ensureLotteryContractInitialized settles; then the isSpinning lock is taken
\* and drawFromContract(1) starts by calling drawCost()
StartDraw_Lock ==
    /\ pc = "initContract"
    /\ \E ok \in BOOLEAN :
         IF ~ok THEN ChainCheckFailed /\ UNCHANGED <<isSpinning, times>>
         ELSE IF isSpinning
         THEN /\ pc' = "idle"
              /\ UNCHANGED <<ui, isSpinning, times>>
         ELSE /\ isSpinning' = TRUE
              /\ times' = 1
              /\ pc' = "drawCost"
              /\ UNCHANGED ui
    /\ UNCHANGED <<pageConfig, totalCost, finalPrize, providerRequests, txLog,
                   receipt, prizeId, shown, persisted>>
    /\ UNCHANGED <<sessionVars, walletVars, chainVars, payVars, serverVars, switchVars, restVars>>

\* drawFromContract: await drawCost().call() settles (lines 2157-2158)
DrawFromContract_Cost ==
    /\ script = "part_003"
    /\ pc = "drawCost"
    /\ \E ok \in BOOLEAN :
         IF ok
         THEN /\ totalCost' = drawCostOnChain * times
              /\ pc' = "allowance"
              /\ UNCHANGED <<ui, isSpinning>>
         ELSE DrawFailed /\ UNCHANGED totalCost
    /\ UNCHANGED <<pageConfig, times, finalPrize, providerRequests, txLog,
                   receipt, prizeId, shown, persisted>>
    /\ UNCHANGED <<sessionVars, walletVars, chainVars, payVars, serverVars, switchVars, restVars>>

\* drawFromContract: await allowance(...).call() settles; approve is sent when
\* the allowance is short, else draw(times) (lines 2163-2171)
DrawFromContract_Allowance ==
    /\ script = "part_003"
    /\ pc = "allowance"
    /\ \E ok \in BOOLEAN :
         IF ~ok THEN DrawFailed /\ UNCHANGED txLog
         ELSE IF NeedsApprove(chainAllowance, totalCost)
         THEN /\ txLog' = Append(txLog, Tx("approve", "approve",
                                           ApproveAmount(chainAllowance, totalCost)))
              /\ pc' = "approve"
              /\ UNCHANGED <<ui, isSpinning>>
         ELSE /\ txLog' = Append(txLog, Tx("draw", "times", 0))
              /\ pc' = "draw"
              /\ UNCHANGED <<ui, isSpinning>>
    /\ UNCHANGED <<pageConfig, times, totalCost, finalPrize, providerRequests,
                   receipt, prizeId, shown, persisted>>
    /\ UNCHANGED <<sessionVars, walletVars, chainVars, payVars, serverVars, switchVars, restVars>>

\* drawFromContract: await approve(...).send() settles; its promise resolves
\* with the receipt once the transaction is included (lines 2165-2171)
DrawFromContract_Approve ==
    /\ script = "part_003"
    /\ pc = "approve"
    /\ \E outcome \in {"included", "rejected", "failed"} :
         IF ApproveResolves(outcome)
         THEN /\ chainAllowance' = IF outcome = "included"
                                   THEN txLog[Len(txLog)].amount
                                   ELSE chainAllowance
              /\ txLog' = Append(Settle(txLog, outcome), Tx("draw", "times", 0))
              /\ pc' = "draw"
              /\ UNCHANGED <<ui, isSpinning>>
         ELSE /\ txLog' = Settle(txLog, outcome)
              /\ DrawFailed
              /\ UNCHANGED chainAllowance
    /\ UNCHANGED <<pageConfig, times, totalCost, finalPrize, providerRequests,
                   receipt, prizeId, shown, persisted>>
    /\ UNCHANGED <<sessionVars, walletVars, drawCostOnChain, payVars, serverVars, switchVars, restVars>>

\* drawFromContract: draw(times).send() is rejected (lines 2172-2179)
DrawFromContract_DrawError ==
    /\ script = "part_003"
    /\ pc = "draw"
    /\ \E e \in DrawErrors :
         LET settled == Reject(txLog, e)
         IN  IF IsParamCountError(e)
             THEN /\ txLog' = Append(settled, Tx("draw", "noarg", 0))
                  /\ pc' = "drawRetry"
                  /\ UNCHANGED <<ui, isSpinning>>
             ELSE /\ txLog' = settled
                  /\ DrawFailed
    /\ UNCHANGED <<pageConfig, times, totalCost, finalPrize, providerRequests,
                   receipt, prizeId, shown, persisted>>
    /\ UNCHANGED <<sessionVars, walletVars, chainVars, payVars, serverVars, switchVars, restVars>>

\* drawFromContract: the draw() retry is rejected; the error propagates
DrawFromContract_RetryError ==
    /\ script = "part_003"
    /\ pc = "drawRetry"
    /\ \E e \in RetryErrors :
         /\ txLog' = Reject(txLog, e)
         /\ DrawFailed
    /\ UNCHANGED <<pageConfig, times, totalCost, finalPrize, providerRequests,
                   receipt, prizeId, shown, persisted>>
    /\ UNCHANGED <<sessionVars, walletVars, chainVars, payVars, serverVars, switchVars, restVars>>

\* the draw transaction is included: drawFromContract parses the receipt and
\* returns {tx, prizeId}; startDraw picks the prize to show or reports that no
\* result was obtained (lines 2181-2211 and 846-863)
DrawFromContract_Receipt ==
    /\ script = "part_003"
    /\ pc \in {"draw", "drawRetry"}
    /\ pc = "draw" => abiDrawTakesTimes
    /\ \E r \in Receipts :
         /\ receipt' = r
         /\ prizeId' = ParsePrizeId(r)
         /\ txLog' = Settle(txLog, "included")
         /\ IF ParsePrizeId(r).t = "number"
            THEN /\ finalPrize' = FinalPrize(ParsePrizeId(r).n)
                 /\ pc' = "spinning"
                 /\ UNCHANGED <<ui, isSpinning>>
            ELSE /\ ui' = "unresolved"
                 /\ resetDrawState
                 /\ pc' = "idle"
                 /\ UNCHANGED finalPrize
    /\ chainAllowance' = IF chainAllowance >= drawCostOnChain * times
                         THEN chainAllowance - drawCostOnChain * times
                         ELSE chainAllowance
    /\ UNCHANGED <<pageConfig, times, totalCost, providerRequests, shown, persisted>>
    /\ UNCHANGED <<sessionVars, walletVars, drawCostOnChain, payVars, serverVars, switchVars, restVars>>

\* onSpinEnd: the wheel stopped (transitionend or the fallback timer); the
\* result modal is shown, the record is posted, the lock released (867-914)
StartDraw_SpinEnd ==
    /\ script = "part_003"
    /\ pc = "spinning"
    /\ ui' = "result"
    /\ shown' = finalPrize
    /\ persisted' = finalPrize
    /\ resetDrawState
    /\ pc' = "idle"
    /\ UNCHANGED <<pageConfig, times, totalCost, finalPrize, providerRequests,
                   txLog, receipt, prizeId>>
    /\ UNCHANGED <<sessionVars, walletVars, chainVars, payVars, serverVars, switchVars, restVars>>

(***************************************************************************)
(* The draw flow of js/lottery.js.                                         *)
(***************************************************************************)
\* ids of the prizes table of js/lottery.js and js/dist/lottery.dev.js
LegacyPrizeIds == 1..6

\* what every invocation starts from: nothing sent, parsed or surfaced yet
BeginInvocation ==
    /\ ui' = "none"
    /\ providerRequests' = <<>>
    /\ txLog' = <<>>
    /\ receipt' = NoReceipt
    /\ prizeId' = JsNull
    /\ shown' = NoPrize
    /\ persisted' = NoPrize
    /\ finalPrize' = NoPrize

\* web3.utils.toWei(x.toString(), 'ether')
ToWei(x) == x * WeiPerEther

\* mapWinningTypeToPrize: mapping[typeIndex] || 6, then prizes.find(...) || last
mapWinningTypeToPrize(typeIndex) ==
    LET mapping == <<1, 2, 3, 4, 5, 6>>
        id == IF typeIndex + 1 \in DOMAIN mapping THEN mapping[typeIndex + 1] ELSE 6
    IN  IF id \in LegacyPrizeIds THEN id ELSE 6

\* receipt?.events?.Draw?.returnValues?.winningType when it is an array,
\* mapped with parseInt; the empty sequence when it is not
WinningTypes(r) ==
    IF r.shape = "map" /\ r.Draw.present /\ r.Draw.rv /\ r.Draw.winningType.t = "array"
    THEN [k \in 1..Len(r.Draw.winningType.a) |-> Decimal(r.Draw.winningType.a[k])]
    ELSE <<>>

\* whether line 807 returns (Array.isArray(winningType))
HasWinningTypes(r) ==
    r.shape = "map" /\ r.Draw.present /\ r.Draw.rv /\ r.Draw.winningType.t = "array"

\* startDraw of js/lottery.js after drawFromContract returned prizeIds
\* (lines 417-435)
Js_HandlePrizeIds(prizeIds) ==
    IF Len(prizeIds) = 0
    THEN /\ DrawFailed
         /\ UNCHANGED <<finalPrize, prizeId>>
    ELSE /\ prizeId' = Num(prizeIds[1])
         /\ finalPrize' = mapWinningTypeToPrize(prizeIds[1])
         /\ pc' = "spinning"
         /\ UNCHANGED <<ui, isSpinning>>

\* startDraw(): entry; the lock is taken and getUserTokenBalance() awaited
Js_StartDraw_Call ==
    /\ script = "js_lottery"
    /\ pc = "idle"
    /\ \E n \in 1..MaxTimes :
         IF ~lotteryIsConnected
         THEN /\ ui' = "connectWallet"
              /\ UNCHANGED <<pc, isSpinning, times, totalCost, providerRequests, txLog,
                             receipt, prizeId, shown, persisted, finalPrize>>
         ELSE IF isSpinning
         THEN UNCHANGED <<pc, ui, isSpinning, times, totalCost, providerRequests,
                          txLog, receipt, prizeId, shown, persisted, finalPrize>>
         ELSE /\ BeginInvocation
              /\ isSpinning' = TRUE
              /\ times' = n
              /\ totalCost' = n * drawCost
              /\ pc' = "balance"
    /\ UNCHANGED pageConfig
    /\ UNCHANGED <<sessionVars, walletVars, chainVars, payVars, serverVars, switchVars, restVars>>

\* startDraw: await getUserTokenBalance() settles (lines 409-417); a short
\* balance returns without resetDrawState()
Js_StartDraw_Balance ==
    /\ script = "js_lottery"
    /\ pc = "balance"
    /\ \E outcome \in {"enough", "short", "error"} :
         CASE outcome = "enough" ->
                /\ pc' = "balanceOf"
                /\ UNCHANGED <<ui, isSpinning>>
           [] outcome = "short" ->
                /\ ui' = "insufficient"
                /\ pc' = "idle"
                /\ UNCHANGED isSpinning
           [] outcome = "error" -> DrawFailed
    /\ UNCHANGED <<pageConfig, times, totalCost, finalPrize, providerRequests,
                   txLog, receipt, prizeId, shown, persisted>>
    /\ UNCHANGED <<sessionVars, walletVars, chainVars, payVars, serverVars, switchVars, restVars>>

\* drawFromContract: getXwawaContract() and balanceOf() settle; approve is sent
\* for requiredAmount whatever the allowance is (lines 788-799)
Js_DrawFromContract_BalanceOf ==
    /\ script = "js_lottery"
    /\ pc = "balanceOf"
    /\ \E outcome \in {"enough", "short", "error"} :
         IF outcome = "enough"
         THEN /\ txLog' = Append(txLog, Tx("approve", "approve", ToWei(drawCost * times)))
              /\ pc' = "approve"
              /\ UNCHANGED <<ui, isSpinning>>
         ELSE DrawFailed /\ UNCHANGED txLog
    /\ UNCHANGED <<pageConfig, times, totalCost, finalPrize, providerRequests,
                   receipt, prizeId, shown, persisted>>
    /\ UNCHANGED <<sessionVars, walletVars, chainVars, payVars, serverVars, switchVars, restVars>>

\* drawFromContract: await approve(...).send() settles; then draw(times) is sent
Js_DrawFromContract_Approve ==
    /\ script = "js_lottery"
    /\ pc = "approve"
    /\ \E outcome \in {"included", "rejected", "failed"} :
         IF ApproveResolves(outcome)
         THEN /\ chainAllowance' = IF outcome = "included"
                                   THEN txLog[Len(txLog)].amount
                                   ELSE chainAllowance
              /\ txLog' = Append(Settle(txLog, outcome), Tx("draw", "times", 0))
              /\ pc' = "draw"
              /\ UNCHANGED <<ui, isSpinning>>
         ELSE /\ txLog' = Settle(txLog, outcome)
              /\ DrawFailed
              /\ UNCHANGED chainAllowance
    /\ UNCHANGED <<pageConfig, times, totalCost, finalPrize, providerRequests,
                   receipt, prizeId, shown, persisted>>
    /\ UNCHANGED <<sessionVars, walletVars, drawCostOnChain, payVars, serverVars, switchVars, restVars>>

\* drawFromContract: draw(times).send() is rejected; there is no retry
Js_DrawFromContract_DrawError ==
    /\ script = "js_lottery"
    /\ pc = "draw"
    /\ \E e \in DrawErrors :
         /\ txLog' = Reject(txLog, e)
         /\ DrawFailed
    /\ UNCHANGED <<pageConfig, times, totalCost, finalPrize, providerRequests,
                   receipt, prizeId, shown, persisted>>
    /\ UNCHANGED <<sessionVars, walletVars, chainVars, payVars, serverVars, switchVars, restVars>>

\* the draw is included: the Draw event's winningType array is returned, or
\* getPastEvents is asked for the block's Draw events (lines 804-810)
Js_DrawFromContract_Receipt ==
    /\ script = "js_lottery"
    /\ pc = "draw"
    /\ abiDrawTakesTimes
    /\ \E r \in Receipts :
         /\ receipt' = r
         /\ txLog' = Settle(txLog, "included")
         /\ IF HasWinningTypes(r)
            THEN Js_HandlePrizeIds(WinningTypes(r))
            ELSE /\ pc' = "pastEvents"
                 /\ UNCHANGED <<ui, isSpinning, finalPrize, prizeId>>
    /\ chainAllowance' = IF chainAllowance >= drawCostOnChain * times
                         THEN chainAllowance - drawCostOnChain * times
                         ELSE chainAllowance
    /\ UNCHANGED <<pageConfig, times, totalCost, providerRequests, shown, persisted>>
    /\ UNCHANGED <<sessionVars, walletVars, drawCostOnChain, payVars, serverVars, switchVars, restVars>>

\* await getPastEvents('Draw', ...) settles: the last event's winningType
\* array, or [] when there is none (lines 810-815)
Js_DrawFromContract_PastEvents ==
    /\ script = "js_lottery"
    /\ pc = "pastEvents"
    /\ \E types \in {<<>>, <<1>>, <<7, 0>>} : \E ok \in BOOLEAN :
         IF ok THEN Js_HandlePrizeIds(types)
         ELSE DrawFailed /\ UNCHANGED <<finalPrize, prizeId>>
    /\ UNCHANGED <<pageConfig, times, totalCost, providerRequests, txLog, receipt,
                   shown, persisted>>
    /\ UNCHANGED <<sessionVars, walletVars, chainVars, payVars, serverVars, switchVars, restVars>>

\* the 3000 ms timer of startDraw: the result is shown and the lock released
Js_StartDraw_Timer ==
    /\ script = "js_lottery"
    /\ pc = "spinning"
    /\ ui' = "result"
    /\ shown' = finalPrize
    /\ resetDrawState
    /\ pc' = "idle"
    /\ UNCHANGED <<pageConfig, times, totalCost, finalPrize, providerRequests,
                   txLog, receipt, prizeId, persisted>>
    /\ UNCHANGED <<sessionVars, walletVars, chainVars, payVars, serverVars, switchVars, restVars>>

(***************************************************************************)
(* The draw flow of js/dist/lottery.dev.js.                                *)
(***************************************************************************)
\* startDraw(): entry; the lock is taken and draw(drawTimes) is sent at once
Dist_StartDraw_Call ==
    /\ script = "dist_lottery"
    /\ pc = "idle"
    /\ \E n \in 1..MaxTimes :
         IF ~lotteryIsConnected
         THEN /\ ui' = "connectWallet"
              /\ UNCHANGED <<pc, isSpinning, times, providerRequests, txLog,
                             receipt, prizeId, shown, persisted, finalPrize>>
         ELSE IF isSpinning
         THEN UNCHANGED <<pc, ui, isSpinning, times, providerRequests,
                          txLog, receipt, prizeId, shown, persisted, finalPrize>>
         ELSE /\ ui' = "none"
              /\ providerRequests' = <<>>
              /\ receipt' = NoReceipt
              /\ prizeId' = JsNull
              /\ shown' = NoPrize
              /\ persisted' = NoPrize
              /\ finalPrize' = NoPrize
              /\ isSpinning' = TRUE
              /\ times' = n
              /\ txLog' = <<Tx("draw", "times", 0)>>
              /\ pc' = "draw"
    /\ UNCHANGED <<pageConfig, totalCost>>
    /\ UNCHANGED <<sessionVars, walletVars, chainVars, payVars, serverVars, switchVars, restVars>>

\* drawFromContract: draw(times).send() is rejected
Dist_DrawFromContract_DrawError ==
    /\ script = "dist_lottery"
    /\ pc = "draw"
    /\ \E e \in DrawErrors :
         /\ txLog' = Reject(txLog, e)
         /\ DrawFailed
    /\ UNCHANGED <<pageConfig, times, totalCost, finalPrize, providerRequests,
                   receipt, prizeId, shown, persisted>>
    /\ UNCHANGED <<sessionVars, walletVars, chainVars, payVars, serverVars, switchVars, restVars>>

\* the draw is included; startDraw picks
\* prizes[Math.floor(Math.random() * prizes.length)] and spins to it
Dist_DrawFromContract_Receipt ==
    /\ script = "dist_lottery"
    /\ pc = "draw"
    /\ abiDrawTakesTimes
    /\ \E r \in Receipts : \E placeholder \in LegacyPrizeIds :
         /\ receipt' = r
         /\ txLog' = Settle(txLog, "included")
         /\ finalPrize' = placeholder
         /\ pc' = "spinning"
    /\ chainAllowance' = IF chainAllowance >= drawCostOnChain * times
                         THEN chainAllowance - drawCostOnChain * times
                         ELSE chainAllowance
    /\ UNCHANGED <<pageConfig, isSpinning, times, totalCost, providerRequests, prizeId,
                   ui, shown, persisted>>
    /\ UNCHANGED <<sessionVars, walletVars, drawCostOnChain, payVars, serverVars, switchVars, restVars>>

\* the 5200 ms timer of startDraw: the placeholder is shown, the lock released
Dist_StartDraw_Timer ==
    /\ script = "dist_lottery"
    /\ pc = "spinning"
    /\ ui' = "result"
    /\ shown' = finalPrize
    /\ resetDrawState
    /\ pc' = "idle"
    /\ UNCHANGED <<pageConfig, times, totalCost, finalPrize, providerRequests,
                   txLog, receipt, prizeId, persisted>>
    /\ UNCHANGED <<sessionVars, walletVars, chainVars, payVars, serverVars, switchVars, restVars>>

(***************************************************************************)
(* XwawaTest.draw(times), the console helper of unnamed/part_003.          *)
(***************************************************************************)
\* the helper's exits: the error is thrown to, or the receipt returned to,
\* the console; the page's draw state is not touched
XwawaTest_Exit(how) ==
    /\ ui' = how
    /\ pc' = "idle"

\* draw(times): entry; ensureConnected() finds web3 and userAccount set and
\* drawCost() is called
XwawaTest_Draw_Call ==
    /\ script = "part_003"
    /\ pc = "idle"
    /\ lotteryIsConnected
    /\ \E n \in 1..MaxTimes :
         /\ BeginInvocation
         /\ times' = n
         /\ pc' = "xtCost"
    /\ UNCHANGED <<pageConfig, isSpinning, totalCost>>
    /\ UNCHANGED <<sessionVars, walletVars, chainVars, payVars, serverVars, switchVars, restVars>>

\* await drawCost().call() settles (lines 2648-2649)
XwawaTest_Draw_Cost ==
    /\ pc = "xtCost"
    /\ \E ok \in BOOLEAN :
         IF ok
         THEN /\ totalCost' = drawCostOnChain * times
              /\ pc' = "xtAllowance"
              /\ UNCHANGED ui
         ELSE XwawaTest_Exit("thrown") /\ UNCHANGED totalCost
    /\ UNCHANGED <<pageConfig, isSpinning, times, finalPrize, providerRequests, txLog,
                   receipt, prizeId, shown, persisted>>
    /\ UNCHANGED <<sessionVars, walletVars, chainVars, payVars, serverVars, switchVars, restVars>>

\* await allowance(...).call() settles; a failed read counts as '0'
\* (lines 2654-2673)
XwawaTest_Draw_Allowance ==
    /\ pc = "xtAllowance"
    /\ \E ok \in BOOLEAN :
         LET allowanceWei == IF ok THEN chainAllowance ELSE 0
         IN  IF NeedsApprove(allowanceWei, totalCost)
             THEN /\ txLog' = Append(txLog, Tx("approve", "approve",
                                               ApproveAmount(allowanceWei, totalCost)))
                  /\ pc' = "xtApprove"
             ELSE /\ txLog' = Append(txLog, Tx("draw", "times", 0))
                  /\ pc' = "xtDraw"
    /\ UNCHANGED <<pageConfig, isSpinning, times, totalCost, finalPrize,
                   providerRequests, receipt, prizeId, ui, shown, persisted>>
    /\ UNCHANGED <<sessionVars, walletVars, chainVars, payVars, serverVars, switchVars, restVars>>

\* await approve(...).send() settles (lines 2662-2673)
XwawaTest_Draw_Approve ==
    /\ pc = "xtApprove"
    /\ \E outcome \in {"included", "rejected", "failed"} :
         IF ApproveResolves(outcome)
         THEN /\ chainAllowance' = IF outcome = "included"
                                   THEN txLog[Len(txLog)].amount
                                   ELSE chainAllowance
              /\ txLog' = Append(Settle(txLog, outcome), Tx("draw", "times", 0))
              /\ pc' = "xtDraw"
              /\ UNCHANGED ui
         ELSE /\ txLog' = Settle(txLog, outcome)
              /\ XwawaTest_Exit("thrown")
              /\ UNCHANGED chainAllowance
    /\ UNCHANGED <<pageConfig, isSpinning, times, totalCost, finalPrize,
                   providerRequests, receipt, prizeId, shown, persisted>>
    /\ UNCHANGED <<sessionVars, walletVars, drawCostOnChain, payVars, serverVars, switchVars, restVars>>

\* await draw(times).send() settles (lines 2673-2675)
XwawaTest_Draw_Settled ==
    /\ pc = "xtDraw"
    /\ \/ \E e \in DrawErrors :
            /\ txLog' = Reject(txLog, e)
            /\ XwawaTest_Exit("thrown")
            /\ UNCHANGED chainAllowance
       \/ /\ abiDrawTakesTimes
          /\ txLog' = Settle(txLog, "included")
          /\ XwawaTest_Exit("returned")
          /\ chainAllowance' = IF chainAllowance >= drawCostOnChain * times
                               THEN chainAllowance - drawCostOnChain * times
                               ELSE chainAllowance
    /\ UNCHANGED <<pageConfig, isSpinning, times, totalCost, finalPrize,
                   providerRequests, receipt, prizeId, shown, persisted>>
    /\ UNCHANGED <<sessionVars, walletVars, drawCostOnChain, payVars, serverVars, switchVars, restVars>>

DrawNext ==
    \/ StartDraw_Call
    \/ EnsureCorrectChain_ChainId
    \/ EnsureCorrectChain_Switch
    \/ EnsureCorrectChain_Add
    \/ EnsureCorrectChain_SwitchAgain
    \/ StartDraw_Lock
    \/ DrawFromContract_Cost
    \/ DrawFromContract_Allowance
    \/ DrawFromContract_Approve
    \/ DrawFromContract_DrawError
    \/ DrawFromContract_RetryError
    \/ DrawFromContract_Receipt
    \/ StartDraw_SpinEnd
    \/ Js_StartDraw_Call
    \/ Js_StartDraw_Balance
    \/ Js_DrawFromContract_BalanceOf
    \/ Js_DrawFromContract_Approve
    \/ Js_DrawFromContract_DrawError
    \/ Js_DrawFromContract_Receipt
    \/ Js_DrawFromContract_PastEvents
    \/ Js_StartDraw_Timer
    \/ Dist_StartDraw_Call
    \/ Dist_DrawFromContract_DrawError
    \/ Dist_DrawFromContract_Receipt
    \/ Dist_StartDraw_Timer
    \/ XwawaTest_Draw_Call
    \/ XwawaTest_Draw_Cost
    \/ XwawaTest_Draw_Allowance
    \/ XwawaTest_Draw_Approve
    \/ XwawaTest_Draw_Settled
    \/ ChainChanged

\* the wallet session on its own: the lottery page stays as loaded
(***************************************************************************)
(* The payment monitor of js/contract-config.js: createOrder,              *)
(* startPaymentMonitor, the interval callback, checkPaymentStatus.         *)
(***************************************************************************)
\* orders created, interval callbacks started, manual checks started and
\* deposits made in one run
MaxOrders == 2
MaxTicks == 3
MaxChecks == 1
MaxBalance == 2

\* initialBalanceWei = null
NoBalance == -1
\* window.paymentMonitorInterval while undefined
NoTimer == 0
\* no checkPaymentStatus in flight
NoCheck == [order |-> 0, phase |-> "idle"]
\* values of ContractConfig.paymentAddress
PaymentAddresses == {"", "0xPAY"}

\* the page after DOMContentLoaded with the given paymentAddress
PayLoaded(address) ==
    /\ paymentAddress = address
    /\ initialBalanceWei = NoBalance
    /\ baselineOrder = 0
    /\ paymentMonitorInterval = NoTimer
    /\ activeTimers = {}
    /\ balance = 0
    /\ orders = 0
    /\ createPc = "idle"
    /\ createOrderBtnHidden = FALSE
    /\ checkPaymentBtnHidden = TRUE
    /\ baselineReads = {}
    /\ ticks = {}
    /\ ticksStarted = 0
    /\ check = NoCheck
    /\ checksStarted = 0
    /\ fires = <<>>

PayInit == \E address \in PaymentAddresses : PayLoaded(address)

\* resetModal(): the buttons return to their initial state; the interval
\* timer and the baseline are left as they are
resetModal ==
    /\ createOrderBtnHidden' = FALSE
    /\ checkPaymentBtnHidden' = TRUE

\* initialBalanceWei && toBN(bal).gt(toBN(initialBalanceWei))
PaymentDetected(bal) == initialBalanceWei # NoBalance /\ bal > initialBalanceWei

\* startPaymentMonitor(orderId, email, walletAddress)
startPaymentMonitor(orderId) ==
    IF paymentAddress = ""
    THEN UNCHANGED <<baselineReads, activeTimers, paymentMonitorInterval>>
    ELSE /\ baselineReads' = baselineReads \cup {orderId}
         /\ activeTimers' = (activeTimers \ {paymentMonitorInterval}) \cup {orderId}
         /\ paymentMonitorInterval' = orderId

\* the modal is closed (and opened again for a product): resetModal()
CloseModal ==
    /\ createOrderBtnHidden \/ ~checkPaymentBtnHidden
    /\ resetModal
    /\ UNCHANGED <<paymentAddress, initialBalanceWei, baselineOrder, paymentMonitorInterval,
                   activeTimers, balance, orders, createPc, baselineReads, ticks,
                   ticksStarted, check, checksStarted, fires>>
    /\ UNCHANGED <<sessionVars, walletVars, drawVars, chainVars, serverVars, switchVars, restVars>>

\* click on createOrderBtn: createOrder() disables the button and sets the
\* 1500 ms timer
CreateOrder_Click ==
    /\ ~createOrderBtnHidden
    /\ createPc = "idle"
    /\ orders < MaxOrders
    /\ createPc' = "pending"
    /\ UNCHANGED <<paymentAddress, initialBalanceWei, baselineOrder, paymentMonitorInterval,
                   activeTimers, balance, orders, createOrderBtnHidden,
                   checkPaymentBtnHidden, baselineReads, ticks, ticksStarted, check,
                   checksStarted, fires>>
    /\ UNCHANGED <<sessionVars, walletVars, drawVars, chainVars, serverVars, switchVars, restVars>>

\* the 1500 ms timer of createOrder: the order id is shown, the monitor is
\* started and the check button replaces the create button
CreateOrder_Timeout ==
    /\ createPc = "pending"
    /\ orders' = orders + 1
    /\ startPaymentMonitor(orders + 1)
    /\ createOrderBtnHidden' = TRUE
    /\ checkPaymentBtnHidden' = FALSE
    /\ createPc' = "idle"
    /\ UNCHANGED <<paymentAddress, initialBalanceWei, baselineOrder, balance, ticks, ticksStarted,
                   check, checksStarted, fires>>
    /\ UNCHANGED <<sessionVars, walletVars, drawVars, chainVars, serverVars, switchVars, restVars>>

\* the getBalance(...).then(...) of startPaymentMonitor settles
StartPaymentMonitor_Baseline ==
    \E o \in baselineReads : \E ok \in BOOLEAN :
        /\ baselineReads' = baselineReads \ {o}
        /\ initialBalanceWei' = IF ok THEN balance ELSE initialBalanceWei
        /\ baselineOrder' = IF ok THEN o ELSE baselineOrder
        /\ UNCHANGED <<paymentAddress, paymentMonitorInterval, activeTimers, balance,
                       orders, createPc, createOrderBtnHidden, checkPaymentBtnHidden,
                       ticks, ticksStarted, check, checksStarted, fires>>
        /\ UNCHANGED <<sessionVars, walletVars, drawVars, chainVars, serverVars, switchVars, restVars>>

\* a payment arrives at the payment address
Deposit ==
    /\ balance < MaxBalance
    /\ balance' = balance + 1
    /\ UNCHANGED <<paymentAddress, initialBalanceWei, baselineOrder, paymentMonitorInterval,
                   activeTimers, orders, createPc, createOrderBtnHidden,
                   checkPaymentBtnHidden, baselineReads, ticks, ticksStarted, check,
                   checksStarted, fires>>
    /\ UNCHANGED <<sessionVars, walletVars, drawVars, chainVars, serverVars, switchVars, restVars>>

\* an interval timer fires: its callback starts and awaits getBalance
Tick_Start ==
    \E t \in activeTimers :
        /\ ticksStarted < MaxTicks
        /\ ticksStarted' = ticksStarted + 1
        /\ ticks' = ticks \cup {[id |-> ticksStarted + 1, order |-> t,
                                 phase |-> "reading"]}
        /\ UNCHANGED <<paymentAddress, initialBalanceWei, baselineOrder, paymentMonitorInterval,
                       activeTimers, balance, orders, createPc, createOrderBtnHidden,
                       checkPaymentBtnHidden, baselineReads, check, checksStarted,
                       fires>>
        /\ UNCHANGED <<sessionVars, walletVars, drawVars, chainVars, serverVars, switchVars, restVars>>

\* the callback's getBalance settles; on a balance above the baseline it
\* clears window.paymentMonitorInterval and calls notifyPaymentReceived
Tick_Balance ==
    \E k \in ticks : \E ok \in BOOLEAN :
        /\ k.phase = "reading"
        /\ IF ok /\ PaymentDetected(balance)
           THEN /\ activeTimers' = activeTimers \ {paymentMonitorInterval}
                /\ fires' = Append(fires, [order |-> k.order, latest |-> orders,
                                           by |-> "tick", bal |-> balance,
                                           baseline |-> initialBalanceWei,
                                           snapshotBy |-> baselineOrder])
                /\ ticks' = (ticks \ {k}) \cup {[k EXCEPT !.phase = "notifying"]}
           ELSE /\ ticks' = ticks \ {k}
                /\ UNCHANGED <<activeTimers, fires>>
        /\ UNCHANGED <<paymentAddress, initialBalanceWei, baselineOrder, paymentMonitorInterval,
                       balance, orders, createPc, createOrderBtnHidden,
                       checkPaymentBtnHidden, baselineReads, ticksStarted, check,
                       checksStarted>>
        /\ UNCHANGED <<sessionVars, walletVars, drawVars, chainVars, serverVars, switchVars, restVars>>

\* the callback's notifyPaymentReceived settles (a failure is only logged):
\* the alert is shown, the modal closed and reset
Tick_Notified ==
    \E k \in ticks :
        /\ k.phase = "notifying"
        /\ ticks' = ticks \ {k}
        /\ resetModal
        /\ UNCHANGED <<paymentAddress, initialBalanceWei, baselineOrder, paymentMonitorInterval,
                       activeTimers, balance, orders, createPc, baselineReads,
                       ticksStarted, check, checksStarted, fires>>
        /\ UNCHANGED <<sessionVars, walletVars, drawVars, chainVars, serverVars, switchVars, restVars>>

\* click on checkPaymentBtn: checkPaymentStatus() reads #order-id, disables
\* the button and awaits getBalance
CheckPaymentStatus_Click ==
    /\ ~checkPaymentBtnHidden
    /\ check = NoCheck
    /\ checksStarted < MaxChecks
    /\ checksStarted' = checksStarted + 1
    /\ check' = [order |-> orders, phase |-> "reading"]
    /\ UNCHANGED <<paymentAddress, initialBalanceWei, baselineOrder, paymentMonitorInterval,
                   activeTimers, balance, orders, createPc, createOrderBtnHidden,
                   checkPaymentBtnHidden, baselineReads, ticks, ticksStarted, fires>>
    /\ UNCHANGED <<sessionVars, walletVars, drawVars, chainVars, serverVars, switchVars, restVars>>

\* checkPaymentStatus: getBalance settles; on a balance above the baseline
\* notifyPaymentReceived is called, the interval timer is left running
CheckPaymentStatus_Balance ==
    /\ check.phase = "reading"
    /\ \E ok \in BOOLEAN :
         IF ok /\ PaymentDetected(balance)
         THEN /\ fires' = Append(fires, [order |-> check.order, latest |-> orders,
                                         by |-> "check", bal |-> balance,
                                         baseline |-> initialBalanceWei,
                                         snapshotBy |-> baselineOrder])
              /\ check' = [check EXCEPT !.phase = "notifying"]
         ELSE /\ check' = NoCheck
              /\ UNCHANGED fires
    /\ UNCHANGED <<paymentAddress, initialBalanceWei, baselineOrder, paymentMonitorInterval,
                   activeTimers, balance, orders, createPc, createOrderBtnHidden,
                   checkPaymentBtnHidden, baselineReads, ticks, ticksStarted,
                   checksStarted>>
    /\ UNCHANGED <<sessionVars, walletVars, drawVars, chainVars, serverVars, switchVars, restVars>>

\* checkPaymentStatus: notifyPaymentReceived settles; on success the modal
\* is closed and reset, on failure only an alert is shown
CheckPaymentStatus_Notified ==
    /\ check.phase = "notifying"
    /\ check' = NoCheck
    /\ \E ok \in BOOLEAN :
         IF ok THEN resetModal
         ELSE UNCHANGED <<createOrderBtnHidden, checkPaymentBtnHidden>>
    /\ UNCHANGED <<paymentAddress, initialBalanceWei, baselineOrder, paymentMonitorInterval,
                   activeTimers, balance, orders, createPc, baselineReads, ticks,
                   ticksStarted, checksStarted, fires>>
    /\ UNCHANGED <<sessionVars, walletVars, drawVars, chainVars, serverVars, switchVars, restVars>>

PayNext ==
    \/ CloseModal
    \/ CreateOrder_Click
    \/ CreateOrder_Timeout
    \/ StartPaymentMonitor_Baseline
    \/ Deposit
    \/ Tick_Start
    \/ Tick_Balance
    \/ Tick_Notified
    \/ CheckPaymentStatus_Click
    \/ CheckPaymentStatus_Balance
    \/ CheckPaymentStatus_Notified

(***************************************************************************)
(* executeWithRetry of server/index.js (GET /api/lottery/history).         *)
(***************************************************************************)
\* the default of the maxRetries parameter
maxRetries == 3
\* how far the clock moves in one step, and where it stops, in ms
ClockStep == 500
MaxClock == 4000

\* error codes pool.execute may fail with
ErrorCodes == {"ECONNRESET", "PROTOCOL_CONNECTION_LOST", "ER_PARSE_ERROR"}
\* the call has neither returned nor thrown
NoOutcome == [kind |-> "none", attempt |-> 0, code |-> ""]

\* a backoff that does not grow with the attempt
FlatBackoff(n) == 1000

\* the delay handed to setTimeout after attempt n: 1000 * attempt
BackoffMs(n) == 1000 * n

\* a policy that retries after whatever error
AnyErrorRetried(code) == TRUE

\* err.code === 'ECONNRESET' || err.code === 'PROTOCOL_CONNECTION_LOST'
IsConnectionError(code) == code = "ECONNRESET" \/ code = "PROTOCOL_CONNECTION_LOST"

\* no call of executeWithRetry yet
RetryIdle ==
    /\ retryPc = "idle"
    /\ attempt = 0
    /\ clock = 0
    /\ wakeAt = 0
    /\ attemptTimes = <<>>
    /\ attemptErrors = <<>>
    /\ retryOutcome = NoOutcome

\* executeWithRetry(pool, sql, params): the loop is entered and the first
\* pool.execute is called
ExecuteWithRetry_Call ==
    /\ retryPc = "idle"
    /\ attempt' = 1
    /\ attemptTimes' = <<clock>>
    /\ retryPc' = "executing"
    /\ UNCHANGED <<clock, wakeAt, attemptErrors, retryOutcome>>
    /\ UNCHANGED <<sessionVars, walletVars, drawVars, chainVars, payVars, poolVars,
                   switchVars, restVars>>

\* await pool.execute resolves: the rows are returned
ExecuteWithRetry_Rows ==
    /\ retryPc = "executing"
    /\ retryOutcome' = [kind |-> "returned", attempt |-> attempt, code |-> ""]
    /\ retryPc' = "returned"
    /\ UNCHANGED <<attempt, clock, wakeAt, attemptTimes, attemptErrors>>
    /\ UNCHANGED <<sessionVars, walletVars, drawVars, chainVars, payVars, poolVars,
                   switchVars, restVars>>

\* await pool.execute rejects: the catch block throws the error or sets the
\* backoff timer
ExecuteWithRetry_Error ==
    /\ retryPc = "executing"
    /\ \E code \in ErrorCodes :
         /\ attemptErrors' = Append(attemptErrors, code)
         /\ IF attempt # maxRetries /\ IsConnectionError(code)
            THEN /\ wakeAt' = clock + BackoffMs(attempt)
                 /\ retryPc' = "sleeping"
                 /\ UNCHANGED retryOutcome
            ELSE /\ retryOutcome' = [kind |-> "thrown", attempt |-> attempt, code |-> code]
                 /\ retryPc' = "thrown"
                 /\ UNCHANGED wakeAt
    /\ UNCHANGED <<attempt, clock, attemptTimes>>
    /\ UNCHANGED <<sessionVars, walletVars, drawVars, chainVars, payVars, poolVars,
                   switchVars, restVars>>

\* the backoff timer fires, not before it is due: the next attempt starts
ExecuteWithRetry_Wake ==
    /\ retryPc = "sleeping"
    /\ clock >= wakeAt
    /\ attempt' = attempt + 1
    /\ attemptTimes' = Append(attemptTimes, clock)
    /\ retryPc' = "executing"
    /\ UNCHANGED <<clock, wakeAt, attemptErrors, retryOutcome>>
    /\ UNCHANGED <<sessionVars, walletVars, drawVars, chainVars, payVars, poolVars,
                   switchVars, restVars>>

\* time passes
ClockTick ==
    /\ clock < MaxClock
    /\ clock' = clock + ClockStep
    /\ UNCHANGED <<retryPc, attempt, wakeAt, attemptTimes, attemptErrors, retryOutcome>>
    /\ UNCHANGED <<sessionVars, walletVars, drawVars, chainVars, payVars, poolVars,
                   switchVars, restVars>>

RetryNext ==
    \/ ExecuteWithRetry_Call
    \/ ExecuteWithRetry_Rows
    \/ ExecuteWithRetry_Error
    \/ ExecuteWithRetry_Wake
    \/ ClockTick

(***************************************************************************)
(* The connection pool of server/db.js.                                    *)
(***************************************************************************)
\* `pool` while undefined or null
NoPool == 0

\* the module after load, with DB_CONFIG_MISSING given
PoolLoaded(missing) ==
    /\ dbConfigMissing = missing
    /\ pool = NoPool
    /\ poolsCreated = 0
    /\ returnedPools = {}
    /\ endCalls = <<>>
    /\ handlers = <<>>
    /\ exited = FALSE

\* signals delivered to the process in one run
MaxSignals == 3
\* the signals db.js listens to
Signals == {"SIGINT", "SIGTERM"}

PoolInit == \E missing \in BOOLEAN : PoolLoaded(missing)

\* getPool(), called by a request handler
GetPool ==
    /\ ~exited
    /\ IF dbConfigMissing
       THEN UNCHANGED <<pool, poolsCreated, endCalls, returnedPools>>
       ELSE IF pool = NoPool
       THEN /\ poolsCreated' = poolsCreated + 1
            /\ pool' = poolsCreated + 1
            /\ endCalls' = Append(endCalls, 0)
            /\ returnedPools' = returnedPools \cup {poolsCreated + 1}
       ELSE /\ returnedPools' = returnedPools \cup {pool}
            /\ UNCHANGED <<pool, poolsCreated, endCalls>>
    /\ UNCHANGED <<dbConfigMissing, handlers, exited>>
    /\ UNCHANGED <<sessionVars, walletVars, drawVars, chainVars, payVars, retryVars,
                   switchVars, restVars>>

\* SIGINT or SIGTERM arrives: its handler calls closePool(), which calls
\* pool.end() when `pool` is set and awaits it; with no pool closePool
\* returns and process.exit(0) follows
Signal ==
    /\ ~exited
    /\ Len(handlers) < MaxSignals
    /\ \E sig \in Signals :
         IF pool # NoPool
         THEN /\ endCalls' = [endCalls EXCEPT ![pool] = @ + 1]
              /\ handlers' = Append(handlers, [signal |-> sig, pc |-> "awaitEnd",
                                               instance |-> pool])
              /\ UNCHANGED exited
         ELSE /\ handlers' = Append(handlers, [signal |-> sig, pc |-> "done",
                                               instance |-> NoPool])
              /\ exited' = TRUE
              /\ UNCHANGED endCalls
    /\ UNCHANGED <<dbConfigMissing, pool, poolsCreated, returnedPools>>
    /\ UNCHANGED <<sessionVars, walletVars, drawVars, chainVars, payVars, retryVars,
                   switchVars, restVars>>

\* a pool.end() awaited by a handler settles: on success closePool sets
\* pool = null and the handler reaches process.exit(0); on failure closePool
\* throws and the handler ends without exiting
ClosePool_EndSettled ==
    /\ ~exited
    /\ \E h \in DOMAIN handlers : \E ok \in BOOLEAN :
         /\ handlers[h].pc = "awaitEnd"
         /\ IF ok
            THEN /\ pool' = NoPool
                 /\ exited' = TRUE
                 /\ handlers' = [handlers EXCEPT ![h].pc = "done"]
            ELSE /\ handlers' = [handlers EXCEPT ![h].pc = "rejected"]
                 /\ UNCHANGED <<pool, exited>>
    /\ UNCHANGED <<dbConfigMissing, poolsCreated, returnedPools, endCalls>>
    /\ UNCHANGED <<sessionVars, walletVars, drawVars, chainVars, payVars, retryVars,
                   switchVars, restVars>>

\* a pool.end() awaited by a handler turns out to be one that never settles:
\* the handler stays suspended at its await, and nothing else resumes it
ClosePool_EndNeverSettles ==
    /\ ~exited
    /\ \E h \in DOMAIN handlers :
         /\ handlers[h].pc = "awaitEnd"
         /\ handlers' = [handlers EXCEPT ![h].pc = "suspended"]
    /\ UNCHANGED <<dbConfigMissing, pool, poolsCreated, returnedPools, endCalls, exited>>
    /\ UNCHANGED <<sessionVars, walletVars, drawVars, chainVars, payVars, retryVars,
                   switchVars, restVars>>

PoolNext ==
    \/ GetPool
    \/ Signal
    \/ ClosePool_EndSettled
    \/ ClosePool_EndNeverSettles


(***************************************************************************)
(* The isSpinning lock under overlapping startDraw() invocations: every    *)
(* click starts an invocation of its own, and the timers and listeners an  *)
(* invocation leaves behind run after it has returned.                     *)
(***************************************************************************)
\* clicks on the draw button in one run
MaxInvocations == 3
InvocationIds == 1..MaxInvocations

LockIdle ==
    /\ invocations = [i \in InvocationIds |-> "idle"]
    /\ lockOwner = 0
    /\ spinTimers = {}
    /\ spinEnds = {}
    /\ drawButtonDisabled = FALSE

\* the draw state but the lock
drawButLock == <<pageConfig, pc, times, totalCost, finalPrize, providerRequests, txLog,
                 receipt, prizeId, ui, shown, persisted>>
\* what no step of an invocation touches
lockFrame == <<drawButLock, sessionVars, walletVars, chainVars, payVars, serverVars,
               switchVars, wcVars, accountsChangedRegistered, claimVars>>

\* invocations between taking the lock and the return of drawFromContract
InFlight == {i \in InvocationIds : invocations[i] \in {"balance", "contract"}}

\* isSpinning = true and the button disabled (part_003 830-837, lottery.js
\* 399-404, lottery.dev.js 627-633)
TakeLock(i) ==
    /\ isSpinning' = TRUE
    /\ lockOwner' = i
    /\ drawButtonDisabled' = TRUE

\* resetDrawState() with the button (part_003 941-952); the end timer of
\* spinWheel writes the same two fields (1541-1549)
ReleaseLock ==
    /\ resetDrawState
    /\ lockOwner' = 0
    /\ drawButtonDisabled' = FALSE

\* the timers startDraw and spinWheel set fire in the order of their delays
\* (lottery.js: 3000 then 4000; lottery.dev.js: 5000 then 5200); in part_003
\* the completion also hangs on transitionend, which may come at any time
TimerMayFire(i) == script = "js_lottery" => i \notin spinEnds
SpinEndMayFire(i) == script = "dist_lottery" => i \notin spinTimers

\* a click on the enabled draw button calls startDraw(): part_003 first awaits
\* the chain check, the other builds test and take the lock at once
StartDraw_Click(i) ==
    /\ invocations[i] = "idle"
    /\ \A j \in 1..(i - 1) : invocations[j] # "idle"
    /\ ~drawButtonDisabled
    /\ lotteryIsConnected
    /\ IF script = "part_003"
       THEN /\ invocations' = [invocations EXCEPT ![i] = "chain"]
            /\ UNCHANGED <<isSpinning, lockOwner, drawButtonDisabled>>
       ELSE IF isSpinning
       THEN /\ invocations' = [invocations EXCEPT ![i] = "returned"]
            /\ UNCHANGED <<isSpinning, lockOwner, drawButtonDisabled>>
       ELSE /\ TakeLock(i)
            /\ invocations' = [invocations EXCEPT
                                 ![i] = IF script = "js_lottery" THEN "balance"
                                        ELSE "contract"]
    /\ UNCHANGED <<spinTimers, spinEnds>>
    /\ UNCHANGED lockFrame

\* part_003: ensureCorrectChain and ensureLotteryContractInitialized settle;
\* then the lock is tested and taken (lines 814-830)
StartDraw_ChainChecked(i) ==
    /\ script = "part_003"
    /\ invocations[i] = "chain"
    /\ \E ok \in BOOLEAN :
         IF ok /\ ~isSpinning
         THEN /\ TakeLock(i)
              /\ invocations' = [invocations EXCEPT ![i] = "contract"]
         ELSE /\ invocations' = [invocations EXCEPT ![i] = "returned"]
              /\ UNCHANGED <<isSpinning, lockOwner, drawButtonDisabled>>
    /\ UNCHANGED <<spinTimers, spinEnds>>
    /\ UNCHANGED lockFrame

\* js/lottery.js: getUserTokenBalance() settles; with too little the function
\* returns from inside the try block (lines 408-415)
StartDraw_BalanceRead(i) ==
    /\ script = "js_lottery"
    /\ invocations[i] = "balance"
    /\ \E enough \in BOOLEAN :
         invocations' = [invocations EXCEPT
                           ![i] = IF enough THEN "contract" ELSE "returned"]
    /\ UNCHANGED <<isSpinning, lockOwner, drawButtonDisabled, spinTimers, spinEnds>>
    /\ UNCHANGED lockFrame

\* drawFromContract settles. An error, or no result where the build asks for
\* one, releases the lock at once; so does a helper of js/lottery.js or
\* lottery.dev.js that is not in scope (they are declared inside
\* generateMockResults). Otherwise spinWheel sets its end timer and startDraw
\* leaves the completion to a timer or listener, and returns.
StartDraw_ContractSettled(i) ==
    /\ invocations[i] = "contract"
    /\ invocations' = [invocations EXCEPT ![i] = "returned"]
    /\ \E outcome \in {"prize", "noResult", "error"} : \E helpersInScope \in BOOLEAN :
         IF \/ outcome = "error"
            \/ outcome = "noResult" /\ script # "dist_lottery"
            \/ script # "part_003" /\ ~helpersInScope
         THEN /\ ReleaseLock
              /\ UNCHANGED <<spinTimers, spinEnds>>
         ELSE /\ spinTimers' = spinTimers \cup {i}
              /\ spinEnds' = spinEnds \cup {i}
              /\ UNCHANGED <<isSpinning, lockOwner, drawButtonDisabled>>
    /\ UNCHANGED lockFrame

\* the end-of-animation timer of spinWheel: isSpinning = false, button enabled
\* (part_003 1541-1549, lottery.js 566-581, lottery.dev.js 860-876)
SpinWheel_Timer(i) ==
    /\ i \in spinTimers
    /\ TimerMayFire(i)
    /\ spinTimers' = spinTimers \ {i}
    /\ ReleaseLock
    /\ UNCHANGED <<invocations, spinEnds>>
    /\ UNCHANGED lockFrame

\* the completion startDraw left behind: onSpinEndOnce on transitionend or
\* its fallback timer (part_003 915-929), the timer of the other builds
\* (lottery.js 431-436, lottery.dev.js 651-659); it ends in resetDrawState()
OnSpinEndOnce(i) ==
    /\ i \in spinEnds
    /\ SpinEndMayFire(i)
    /\ spinEnds' = spinEnds \ {i}
    /\ ReleaseLock
    /\ UNCHANGED <<invocations, spinTimers>>
    /\ UNCHANGED lockFrame

LockNext ==
    \E i \in InvocationIds :
        \/ StartDraw_Click(i)
        \/ StartDraw_ChainChecked(i)
        \/ StartDraw_BalanceRead(i)
        \/ StartDraw_ContractSettled(i)
        \/ SpinWheel_Timer(i)
        \/ OnSpinEndOnce(i)


(***************************************************************************)
(* POST /api/lottery/claim of server/index.js: concurrent requests for one *)
(* row of lottery_records.                                                 *)
(***************************************************************************)
\* claim requests in one run
MaxClaims == 3
ClaimIds == 1..MaxClaims
\* claimed_at of a row that was never claimed (NULL)
NoTime == 0
\* the email of a request body; "" when the field is missing
Emails == {"", "ann", "ann@x.io", "bob@x.io"}
\* /^[^\s@]+@[^\s@]+\.[^\s@]+$/ on the bodies above
emailRegex(e) == e \in {"ann@x.io", "bob@x.io"}
\* prize ids the endpoint lets through: record.prize in 0..2
Claimable(prize) == prize >= 0 /\ prize <= 2
\* the answers of the endpoint
NoResponse == "none"

ClaimRequest(email, own) ==
    [pc |-> "idle", email |-> email, own |-> own, response |-> NoResponse]

\* the row as the draw left it, and no request yet
ClaimLoaded(prize) ==
    /\ lotteryRecord = [prize |-> prize, claim_status |-> "unclaimed",
                        email |-> "", claimed_at |-> NoTime]
    /\ claims = [r \in ClaimIds |-> ClaimRequest("", TRUE)]
    /\ dbNow = 1

ClaimIdle == ClaimLoaded(0)

claimFrame == <<sessionVars, walletVars, drawVars, chainVars, payVars, serverVars,
                switchVars, wcVars, accountsChangedRegistered, lockVars>>

Respond(r, answer) ==
    claims' = [claims EXCEPT ![r].pc = "done", ![r].response = answer]

\* the request arrives: the body is validated, then the SELECT is issued
\* (lines 321-346); `own` tells whether wallet_address is the row's
Claim_Post(r) ==
    /\ claims[r].pc = "idle"
    /\ claims[r].response = NoResponse
    /\ \A q \in 1..(r - 1) : claims[q].pc # "idle" \/ claims[q].response # NoResponse
    /\ \E email \in Emails : \E own \in BOOLEAN :
         IF email = "" THEN Respond(r, "400 missing")
         ELSE IF ~emailRegex(email) THEN Respond(r, "400 email")
         ELSE claims' = [claims EXCEPT ![r] = [ClaimRequest(email, own)
                                                 EXCEPT !.pc = "select"]]
    /\ UNCHANGED <<lotteryRecord, dbNow>>
    /\ UNCHANGED claimFrame

\* the SELECT settles: the handler answers from the row as it reads now, or
\* issues the UPDATE (lines 346-370)
Claim_Selected(r) ==
    /\ claims[r].pc = "select"
    /\ \E ok \in BOOLEAN :
         IF ~ok THEN Respond(r, "500")
         ELSE IF ~claims[r].own THEN Respond(r, "404 not found")
         ELSE IF ~Claimable(lotteryRecord.prize) THEN Respond(r, "400 prize")
         ELSE IF lotteryRecord.claim_status = "claimed"
         THEN Respond(r, "400 already claimed")
         ELSE claims' = [claims EXCEPT ![r].pc = "update"]
    /\ UNCHANGED <<lotteryRecord, dbNow>>
    /\ UNCHANGED claimFrame

\* the UPDATE settles: its WHERE names id and wallet_address only, so the row
\* is written whatever its claim_status; then { ok: true } (lines 366-383)
Claim_Updated(r) ==
    /\ claims[r].pc = "update"
    /\ \E ok \in BOOLEAN :
         IF ok
         THEN /\ lotteryRecord' = [lotteryRecord EXCEPT
                                     !.email = claims[r].email,
                                     !.claim_status = "claimed",
                                     !.claimed_at = dbNow]
              /\ dbNow' = dbNow + 1
              /\ Respond(r, "200 ok")
         ELSE /\ Respond(r, "500")
              /\ UNCHANGED <<lotteryRecord, dbNow>>
    /\ UNCHANGED claimFrame

ClaimNext ==
    \E r \in ClaimIds :
        \/ Claim_Post(r)
        \/ Claim_Selected(r)
        \/ Claim_Updated(r)

InitSession ==
    /\ SessionInit
    /\ WalletInit
    /\ PageLoaded("part_003", TRUE, TRUE, FALSE)
    /\ drawCost = 1
    /\ PayLoaded("")
    /\ RetryIdle
    /\ PoolLoaded(FALSE)
    /\ ChainCheckIdle
    /\ WcLoaded("01ee15712187949f2a2dadb65cda86ae")
    /\ accountsChangedRegistered = FALSE
    /\ LockIdle
    /\ ClaimIdle
    /\ drawCostOnChain = 10
    /\ chainAllowance = 0

\* the draw flow on its own: the Web3ModalManager stays as constructed
InitDraw ==
    /\ Constructed(TRUE, FALSE)
    /\ walletAccounts = <<"0xA">>
    /\ walletChain \in Chains
    /\ DrawInit
    /\ ChainInit
    /\ PayLoaded("")
    /\ RetryIdle
    /\ PoolLoaded(FALSE)
    /\ ChainCheckIdle
    /\ WcLoaded("01ee15712187949f2a2dadb65cda86ae")
    /\ accountsChangedRegistered = FALSE
    /\ LockIdle
    /\ ClaimIdle

\* the marketplace page on its own: no wallet session, no draw
InitPay ==
    /\ Constructed(TRUE, FALSE)
    /\ walletAccounts = <<>>
    /\ walletChain = TargetId
    /\ PageLoaded("part_003", TRUE, TRUE, FALSE)
    /\ drawCost = 1
    /\ drawCostOnChain = 10
    /\ chainAllowance = 0
    /\ PayInit
    /\ RetryIdle
    /\ PoolLoaded(FALSE)
    /\ ChainCheckIdle
    /\ WcLoaded("01ee15712187949f2a2dadb65cda86ae")
    /\ accountsChangedRegistered = FALSE
    /\ LockIdle
    /\ ClaimIdle

\* the retry loop on its own
InitRetry ==
    /\ Constructed(TRUE, FALSE)
    /\ walletAccounts = <<>>
    /\ walletChain = TargetId
    /\ PageLoaded("part_003", TRUE, TRUE, FALSE)
    /\ drawCost = 1
    /\ drawCostOnChain = 10
    /\ chainAllowance = 0
    /\ PayLoaded("")
    /\ RetryIdle
    /\ PoolLoaded(FALSE)
    /\ ChainCheckIdle
    /\ WcLoaded("01ee15712187949f2a2dadb65cda86ae")
    /\ accountsChangedRegistered = FALSE
    /\ LockIdle
    /\ ClaimIdle

\* the database module on its own
InitPool ==
    /\ Constructed(TRUE, FALSE)
    /\ walletAccounts = <<>>
    /\ walletChain = TargetId
    /\ PageLoaded("part_003", TRUE, TRUE, FALSE)
    /\ drawCost = 1
    /\ drawCostOnChain = 10
    /\ chainAllowance = 0
    /\ PayLoaded("")
    /\ RetryIdle
    /\ PoolInit
    /\ ChainCheckIdle
    /\ WcLoaded("01ee15712187949f2a2dadb65cda86ae")
    /\ accountsChangedRegistered = FALSE
    /\ LockIdle
    /\ ClaimIdle

SpecSession == InitSession /\ [][SessionNext]_vars

\* the session on a page whose configuration may lack the project id
InitWc ==
    /\ SessionInit
    /\ WalletInit
    /\ PageLoaded("part_003", TRUE, TRUE, FALSE)
    /\ drawCost = 1
    /\ drawCostOnChain = 10
    /\ chainAllowance = 0
    /\ PayLoaded("")
    /\ RetryIdle
    /\ PoolLoaded(FALSE)
    /\ ChainCheckIdle
    /\ \E id \in ProjectIds : WcLoaded(id)
    /\ accountsChangedRegistered = FALSE
    /\ LockIdle
    /\ ClaimIdle

SpecWc == InitWc /\ [][WcNext]_vars

SpecDraw == InitDraw /\ [][DrawNext]_vars

\* a draw on the lottery page of unnamed/part_003 while the wallet's account
\* list changes
AccountNext ==
    \/ StartDraw_Call
    \/ EnsureCorrectChain_ChainId
    \/ StartDraw_Lock
    \/ DrawFromContract_Cost
    \/ DrawFromContract_Allowance
    \/ DrawFromContract_Approve
    \/ DrawFromContract_DrawError
    \/ DrawFromContract_RetryError
    \/ DrawFromContract_Receipt
    \/ StartDraw_SpinEnd
    \/ AccountsChanged

\* the page connected on the required chain, by its own connectWallet() (the
\* listener registered) or restored by checkWalletConnection (none registered)
InitAccount ==
    /\ Constructed(TRUE, FALSE)
    /\ walletAccounts = <<"0xA">>
    /\ walletChain = TargetId
    /\ \E takesTimes \in BOOLEAN : PageLoaded("part_003", TRUE, takesTimes, TRUE)
    /\ drawCost = 1
    /\ drawCostOnChain = 10
    /\ chainAllowance \in Allowances
    /\ PayLoaded("")
    /\ RetryIdle
    /\ PoolLoaded(FALSE)
    /\ ChainCheckIdle
    /\ WcLoaded("01ee15712187949f2a2dadb65cda86ae")
    /\ accountsChangedRegistered \in BOOLEAN
    /\ LockIdle
    /\ ClaimIdle

SpecAccount == InitAccount /\ [][AccountNext]_vars

\* a connected page of any build, and nothing else going on
InitLock ==
    /\ Constructed(TRUE, FALSE)
    /\ walletAccounts = <<"0xA">>
    /\ walletChain = TargetId
    /\ \E build \in Scripts : PageLoaded(build, TRUE, TRUE, TRUE)
    /\ drawCost = 1
    /\ drawCostOnChain = 10
    /\ chainAllowance = 0
    /\ PayLoaded("")
    /\ RetryIdle
    /\ PoolLoaded(FALSE)
    /\ ChainCheckIdle
    /\ WcLoaded("01ee15712187949f2a2dadb65cda86ae")
    /\ accountsChangedRegistered = FALSE
    /\ LockIdle
    /\ ClaimIdle

SpecLock == InitLock /\ [][LockNext]_vars

\* the page with the event loop running: awaited calls settle and timers
\* and listeners that were set are run; clicks come as the user pleases
SpecLockLive ==
    /\ InitLock
    /\ [][LockNext]_vars
    /\ \A i \in InvocationIds :
         /\ WF_vars(StartDraw_ChainChecked(i))
         /\ WF_vars(StartDraw_BalanceRead(i))
         /\ WF_vars(StartDraw_ContractSettled(i))
         /\ WF_vars(SpinWheel_Timer(i))
         /\ WF_vars(OnSpinEndOnce(i))

\* the server with one row, of any prize, that requests come to claim
InitClaim ==
    /\ Constructed(TRUE, FALSE)
    /\ walletAccounts = <<>>
    /\ walletChain = TargetId
    /\ PageLoaded("part_003", TRUE, TRUE, FALSE)
    /\ drawCost = 1
    /\ drawCostOnChain = 10
    /\ chainAllowance = 0
    /\ PayLoaded("")
    /\ RetryIdle
    /\ PoolLoaded(FALSE)
    /\ ChainCheckIdle
    /\ WcLoaded("01ee15712187949f2a2dadb65cda86ae")
    /\ accountsChangedRegistered = FALSE
    /\ LockIdle
    /\ \E prize \in {0, 2, 5} : ClaimLoaded(prize)

SpecClaim == InitClaim /\ [][ClaimNext]_vars

SpecPay == InitPay /\ [][PayNext]_vars

SpecRetry == InitRetry /\ [][RetryNext]_vars

SpecPool == InitPool /\ [][PoolNext]_vars

\* the server with the event loop running: the fate of every awaited
\* pool.end() is decided and the handler is resumed when it settles; signals
\* and requests arrive as they may
SpecPoolLive ==
    /\ InitPool
    /\ [][PoolNext]_vars
    /\ WF_vars(ClosePool_EndSettled \/ ClosePool_EndNeverSettles)

\* chain assurance on the lottery page of unnamed/part_003: startDraw as far
\* as the lock it takes after ensureCorrectChain (the draw that follows is
\* SpecDraw's), and the post-connect check of the wallet manager
ChainNext ==
    \/ OnWalletConnected
    \/ SwitchNetwork_Switch
    \/ SwitchNetwork_Add
    \/ SwitchNetwork_SwitchAgain
    \/ StartDraw_Call
    \/ EnsureCorrectChain_ChainId
    \/ EnsureCorrectChain_Switch
    \/ EnsureCorrectChain_Add
    \/ EnsureCorrectChain_SwitchAgain
    \/ StartDraw_Lock
    \/ ChainChanged

\* the session as connectViaInjected leaves it (the handlers registered, the
\* chain id read from the wallet), on the lottery page with a wallet connected
InitChain ==
    /\ walletAccounts = <<"0xA">>
    /\ walletChain \in Chains
    /\ provider = "ethereum"
    /\ web3 = "ethereum"
    /\ account = "0xA"
    /\ chainId = walletChain
    /\ isConnected = TRUE
    /\ useSimpleWallet = TRUE
    /\ providerHasDisconnect = FALSE
    /\ subscribed = TRUE
    /\ connPc = [i \in 1..MaxConnects |-> "idle"]
    /\ discAtProvider = 0
    /\ discAtCache = 0
    /\ \E takesTimes \in BOOLEAN : PageLoaded("part_003", TRUE, takesTimes, TRUE)
    /\ ChainInit
    /\ PayLoaded("")
    /\ RetryIdle
    /\ PoolLoaded(FALSE)
    /\ ChainCheckIdle
    /\ WcLoaded("01ee15712187949f2a2dadb65cda86ae")
    /\ accountsChangedRegistered = FALSE
    /\ LockIdle
    /\ ClaimIdle

SpecChain == InitChain /\ [][ChainNext]_vars

(***************************************************************************)
(* C1: in every reachable state of the wallet session, account and chainId *)
(* are both non-null if and only if the session is connected.              *)
(***************************************************************************)
C1_AccountAndChainIffConnected ==
    (account # NULL /\ chainId # NullChainId) <=> isConnected

(***************************************************************************)
(* Properties of the draw pipeline, checked under SpecDraw.                *)
(***************************************************************************)
\* positions of the draw transactions of the current invocation
DrawTxs == {k \in DOMAIN txLog : txLog[k].kind = "draw"}
\* positions of its approve transactions
ApproveTxs == {k \in DOMAIN txLog : txLog[k].kind = "approve"}

\* C2: in one invocation of drawFromContract at most one draw transaction
\* is broadcast; a second draw submission exists only as the no-argument
\* retry that directly follows a draw(times) rejected before broadcast with
\* the parameter-count error, and any other rejected submission ends the
\* invocation without a further submission.
C2_AtMostOneDrawBroadcast ==
    /\ Cardinality({k \in DrawTxs : txLog[k].status # "rejected"}) <= 1
    /\ Cardinality(DrawTxs) <= 2
    /\ \A k \in DrawTxs :
         k < Len(txLog) =>
            /\ txLog[k].form = "times"
            /\ txLog[k].status = "rejected"
            /\ txLog[k].error = "invalid number of parameters"
            /\ txLog[k + 1].kind = "draw"
            /\ txLog[k + 1].form = "noarg"
            /\ k + 1 = Len(txLog)

\* C2 happens: a draw(times) was rejected with the parameter-count error and
\* the draw() retry was included
C2_RetryIncluded ==
    /\ script = "part_003"
    /\ Cardinality(DrawTxs) = 2
    /\ txLog[Len(txLog)].form = "noarg"
    /\ txLog[Len(txLog)].status = "included"

\* C3: startDraw's pipeline sends an approve only when the allowance is
\* below the total required, and then for exactly the total required; with
\* a sufficient allowance only the draw is sent.
C3_ApproveOnlyWhenShort ==
    pc = "approve" =>
        /\ chainAllowance < txLog[Len(txLog)].amount
        /\ txLog[Len(txLog)].amount = (IF script = "js_lottery"
                                       THEN ToWei(drawCost * times)
                                       ELSE drawCostOnChain * times)

C5_SubmittedOnRequiredChain ==
    (script = "part_003" /\ pc \in {"approve", "draw", "drawRetry"}) =>
        txLog[Len(txLog)].chain = TargetId

\* C6: in the builds that parse the receipt, a draw that was included but
\* whose outcome was not resolved ends in
\* the 'unresolved' state, which is neither a result nor a failure, with no
\* prize displayed or persisted.
C6_UnresolvedIsDistinct ==
    (/\ script \in {"part_003", "js_lottery"}
     /\ pc = "idle"
     /\ receipt # NoReceipt
     /\ prizeId.t # "number") =>
        /\ ui = "unresolved"
        /\ shown = NoPrize
        /\ persisted = NoPrize

\* C7: a displayed or persisted prize is the one the decoded on-chain code
\* names (the code itself in unnamed/part_003, the code's entry of the
\* winning-type table in the older builds), never a default or a placeholder.
C7_ShownIsDecoded ==
    \A p \in {shown, persisted} :
        p # NoPrize =>
            /\ prizeId.t = "number"
            /\ p = (IF script = "part_003" THEN prizeId.n ELSE prizeId.n + 1)

\* the object drawFromContract returns (line 2211)
Returned == [tx |-> receipt, prizeId |-> prizeId]

\* a parsed receipt whose event map holds the Draw event only
OnlyDrawEvent ==
    /\ script = "part_003"
    /\ receipt.shape = "map"
    /\ ~receipt.DrawResult.present
    /\ receipt.Draw.present
    /\ receipt.Draw.rv

\* the prize code a Draw event's fields stand for
DrawEventCode ==
    LET d == receipt.Draw
    IN  IF d.prizeId.t = "string" THEN Num(Decimal(d.prizeId.d))
        ELSE IF d.winningType.t = "string" THEN Num(Decimal(d.winningType.d))
        ELSE IF d.winningType.t = "array" /\ Len(d.winningType.a) >= 1
        THEN Num(Decimal(d.winningType.a[1]))
        ELSE prizeId

FiresOf(o) == {i \in DOMAIN fires : fires[i].order = o}

\* C9: for one payment watch notifyPaymentReceived is called at most once,
\* by whatever tick or manual check, and the interval timer of the watch is
\* cancelled once the watch has fired.
C9_FiresOncePerWatch ==
    \A o \in 1..orders :
        /\ Cardinality(FiresOf(o)) <= 1
        /\ FiresOf(o) # {} => o \notin activeTimers

\* C10: at most one interval timer is active, and every call of
\* notifyPaymentReceived is made for the watch that is the latest one at the
\* time of the call, never for an earlier watch.
C10_EarlierWatchNeverFires ==
    /\ Cardinality(activeTimers) <= 1
    /\ \A i \in DOMAIN fires : fires[i].order = fires[i].latest

(***************************************************************************)
(* Properties of executeWithRetry, checked under SpecRetry.                *)
(***************************************************************************)
\* the transient connection errors
TransientCodes == {"ECONNRESET", "PROTOCOL_CONNECTION_LOST"}
\* every attempt so far failed with a transient connection error
OnlyTransientFailures ==
    /\ retryOutcome.kind # "returned"
    /\ \A k \in DOMAIN attemptErrors : attemptErrors[k] \in TransientCodes

\* C11: while every attempt fails with a transient connection error there
\* are at most 3 attempts, the 2nd at least 1000 ms after the 1st fails and
\* the 3rd at least 2000 ms after the 2nd; the call ends only after the 3rd
\* attempt, by throwing that attempt's error as it is, and returns nothing.
C11_ThreeAttemptsThenThrow ==
    OnlyTransientFailures =>
        /\ Len(attemptTimes) <= 3
        /\ Len(attemptTimes) >= 2 => attemptTimes[2] - attemptTimes[1] >= 1000
        /\ Len(attemptTimes) >= 3 => attemptTimes[3] - attemptTimes[2] >= 2000
        /\ retryPc \notin {"idle", "executing", "sleeping"} =>
              /\ Len(attemptErrors) = 3
              /\ retryOutcome = [kind |-> "thrown", attempt |-> 3,
                            code |-> attemptErrors[3]]
        /\ Len(attemptErrors) = 3 => retryPc = "thrown"

\* C11 happens: three attempts failed with transient errors and the call
\* threw
C11_ThirdFailureThrown ==
    /\ OnlyTransientFailures
    /\ Len(attemptErrors) = 3
    /\ retryPc = "thrown"

\* C12: an attempt that fails with an error other than a transient
\* connection error is the last one and its error is thrown at once, with
\* no backoff; an attempt that succeeds is the last one and the call
\* returns.
C12_OtherErrorsThrownAtOnce ==
    /\ \A k \in DOMAIN attemptErrors :
         attemptErrors[k] \notin TransientCodes =>
            /\ k = Len(attemptErrors)
            /\ Len(attemptTimes) = k
            /\ retryPc = "thrown"
            /\ retryOutcome = [kind |-> "thrown", attempt |-> k, code |-> attemptErrors[k]]
    /\ retryOutcome.kind = "returned" =>
            /\ retryPc = "returned"
            /\ Len(attemptTimes) = retryOutcome.attempt
            /\ Len(attemptErrors) = retryOutcome.attempt - 1

\* C12 happens: the 2nd attempt failed with a non-transient error and the
\* call threw it
C12_SecondAttemptThrown ==
    /\ Len(attemptErrors) = 2
    /\ attemptErrors[2] = "ER_PARSE_ERROR"
    /\ retryPc = "thrown"

(***************************************************************************)
(* Properties of the connection pool, checked under SpecPool.              *)
(***************************************************************************)
\* C13: at most one pool instance is created, by the first getPool(), every
\* getPool() returns that instance, and pool.end() is called at most once on
\* it, whatever signals arrive while a close is in progress.
C13_PoolClosedOnce ==
    /\ poolsCreated <= 1
    /\ Cardinality(returnedPools) <= 1
    /\ \A p \in DOMAIN endCalls : endCalls[p] <= 1

\* C14: process.exit is not reached while a pool.end() is still pending.
C14_ExitAfterClose ==
    exited => \A h \in DOMAIN handlers : handlers[h].pc # "awaitEnd"

(***************************************************************************)
(* Further properties of the wallet session, checked under SpecSession.    *)
(***************************************************************************)
\* the session fields as the constructor and the reset leave them
SessionIsReset ==
    /\ provider = NULL
    /\ web3 = NULL
    /\ account = NULL
    /\ chainId = NullChainId
    /\ isConnected = FALSE

\* C15: every step in which a disconnectWallet call ends (one call fewer is
\* suspended at provider.disconnect() or clearCachedProvider()) leaves the
\* session reset, whether the awaited call succeeded or threw.
C15_DisconnectAlwaysResets ==
    [][(discAtProvider' + discAtCache' < discAtProvider + discAtCache)
         => SessionIsReset']_vars

\* the connect calls that have started and not yet ended
ConnectsInFlight == {i \in 1..MaxConnects : connPc[i] # "idle"}

\* C16: at most one connect attempt is in flight, and at most one account
\* request is pending: a connect call made while another is in progress
\* does not start.
C16_OneConnectInFlight ==
    /\ Cardinality(ConnectsInFlight) <= 1
    /\ Cardinality({i \in 1..MaxConnects : connPc[i] = "getAccounts"}) <= 1

\* disconnectWallet calls suspended at one of their awaits
DisconnectsInFlight == discAtProvider + discAtCache

\* C17: on a Connected session an accountsChanged notification with an
\* empty list starts a disconnect that leaves the session reset when it
\* ends; a notification with a non-empty list keeps the session Connected
\* and replaces the account only.
C17_AccountsChangedHandled ==
    [][/\ (isConnected /\ subscribed /\ walletAccounts' # walletAccounts
             /\ walletAccounts' = <<>>)
          => (SessionIsReset' \/ DisconnectsInFlight' > DisconnectsInFlight)
       /\ (isConnected /\ subscribed /\ walletAccounts = <<>>
             /\ walletAccounts' = <<>>
             /\ DisconnectsInFlight' < DisconnectsInFlight)
          => SessionIsReset'
       /\ (isConnected /\ subscribed /\ walletAccounts' # walletAccounts
             /\ walletAccounts' # <<>>)
          => (/\ isConnected'
              /\ account' = walletAccounts'[1]
              /\ chainId' = chainId
              /\ provider' = provider)]_vars

\* C18: when the wallet's active chain equals the required chain, neither
\* ensureCorrectChain (every call of it, hence also the second of two
\* consecutive ones) nor the post-connect check sends a request to the
\* provider: the request log of the call stays as it is, or empty.
C18_MatchedIssuesNoRequest ==
    [][/\ (pc = "getChainId" /\ walletChain = TargetId)
          => providerRequests' = providerRequests
       /\ (switchPc = "idle" /\ walletChain = TargetId)
          => (switchPc' = "idle" /\ switchRequests' \in {switchRequests, <<>>})]_vars

\* the post-connect check has switched the wallet to the required chain, and
\* the chain check of a startDraw on the matched session has sent nothing
C18_SecondCallSendsNothing ==
    /\ switchPc = "idle"
    /\ switchRequests = <<SwitchRequest(TargetId)>>
    /\ caught = NoError
    /\ walletChain = TargetId
    /\ pc = "initContract"
    /\ providerRequests = <<>>

\* the positions of the add-network requests in a request log
AddRequestsOf(log) ==
    {k \in 1..Len(log) : log[k].method = "wallet_addEthereumChain"}

\* C19: a chain check for chain 1952 whose switch is rejected as an
\* unrecognized chain sends one add-network request, second in its log after
\* the rejected switch, carrying chainId "0x7a0", the chainName,
\* nativeCurrency and blockExplorerUrls of the static configuration and its
\* rpcUrl, and then at most one further switch to "0x7a0"; nothing else.
C19_AddFromConfigThenSwitch ==
    \A log \in {providerRequests, switchRequests} :
        \A k \in AddRequestsOf(log) :
            /\ k = 2
            /\ Len(log) <= 3
            /\ \A j \in (1..Len(log)) \ {2} :
                 /\ log[j].method = "wallet_switchEthereumChain"
                 /\ log[j].params.chainId = "0x7a0"
            /\ log[k].params.chainId = "0x7a0"
            /\ log[k].params.rpcUrls = <<ContractConfig.rpcUrl>>
            /\ \A field \in {"chainName", "nativeCurrency", "blockExplorerUrls"} :
                 /\ field \in DOMAIN ContractConfig
                 /\ log[k].params[field] = ContractConfig[field]

\* switch errors that name no unknown chain
OtherSwitchErrors ==
    {error \in SwitchErrors :
        error.code # 4902 /\ error.message \notin UnknownChainMessages}

\* C20: when the first switch request of a chain check is rejected with an
\* error that is not 'unrecognized chain', the check ends failed and the
\* caller's catch has run (startDraw shows its chain alert and goes no
\* further; the post-connect callback is handed that very error), and the
\* log of the check holds no add-network request.
C20_OtherSwitchErrorSurfaced ==
    /\ switchErr \in OtherSwitchErrors
         => (/\ pc = "idle"
             /\ ui = "chainError"
             /\ txLog = <<>>
             /\ AddRequestsOf(providerRequests) = {})
    /\ switchNetworkErr \in OtherSwitchErrors
         => (/\ switchPc = "idle"
             /\ caught = switchNetworkErr
             /\ AddRequestsOf(switchRequests) = {})

\* both callers have been handed a rejection by the user
C20_BothCallersFailed ==
    /\ switchErr \in OtherSwitchErrors
    /\ ui = "chainError"
    /\ switchNetworkErr \in OtherSwitchErrors
    /\ caught = switchNetworkErr

C22_ApprovesCostReadNow ==
    (script \in {"part_003", "js_lottery"} /\ pc = "approve")
        => txLog[Len(txLog)].amount = drawCostOnChain * times

\* C23: every transaction of a draw is sent from the account the wallet has
\* selected at the moment of the submission (none after a disconnect), not
\* from an account the page captured before a change.
C23_SentFromCurrentAccount ==
    (script = "part_003" /\ pc \in {"approve", "draw", "drawRetry", "spinning"}) =>
        \A k \in 1..Len(txLog) : txLog[k].from = txLog[k].selected

\* the DrawResult event of the parsed receipt carries no prize code
PrimaryYieldsNothing ==
    \/ ~receipt.DrawResult.rv
    \/ (receipt.DrawResult.prizeId = Undef /\ receipt.DrawResult.idx1 = Undef)

\* C24: the strategies are tried in the order DrawResult event, Draw event,
\* decoded log, up to the first that yields a code: a DrawResult event that
\* yields none does not keep the Draw event from being read, and a code the
\* DrawResult event yields is the one returned.
C24_LaterStrategiesTried ==
    (script = "part_003" /\ receipt.shape = "map" /\ receipt.DrawResult.present) =>
        /\ (PrimaryYieldsNothing /\ receipt.Draw.rv /\ receipt.Draw.prizeId # Undef)
             => prizeId = NumberOf(receipt.Draw.prizeId)
        /\ (receipt.DrawResult.rv /\ receipt.DrawResult.prizeId # Undef)
             => prizeId = NumberOf(receipt.DrawResult.prizeId)

\* C25: a tick calls notifyPaymentReceived only for a balance strictly above
\* the baseline, and the baseline it compares with is the one the start of
\* its own watch stored: not a missing one, nor one an earlier watch left.
C25_FiresAboveOwnBaseline ==
    \A i \in DOMAIN fires :
        fires[i].by = "tick" =>
            /\ fires[i].baseline # NoBalance
            /\ fires[i].bal > fires[i].baseline
            /\ fires[i].snapshotBy = fires[i].order

\* C26: a connect over the remote-session channel whose pairing succeeds ends
\* Connected with account and chain id set and the provider's events
\* subscribed; one whose pairing is rejected ends Disconnected.
C26_PairedEndsConnected ==
    [][(wcPc = "pairing" /\ wcPc' = "idle") =>
          IF wcLog'[Len(wcLog')] = "paired"
          THEN /\ isConnected'
               /\ account' # NULL
               /\ chainId' # NullChainId
               /\ subscribed'
          ELSE ~isConnected']_vars

\* C27: once a termination signal has been delivered, the process eventually
\* exits, whether the close of the pool succeeds, fails or never completes,
\* and whether or not further signals arrive meanwhile.
C27_SignalLeadsToExit == (Len(handlers) > 0) ~> exited

\* C28: between taking the lock and the return of drawFromContract at most
\* one invocation is in flight, and while one is the lock is held, by it:
\* neither an animation timer nor a late completion callback of an earlier
\* draw releases it.
C28_LockHeldByDrawInFlight ==
    script = "part_003" =>
        /\ Cardinality(InFlight) <= 1
        /\ InFlight # {} => (isSpinning /\ lockOwner \in InFlight)

\* C29: of the claim requests for one record at most one is answered with
\* success.
C29_OneClaimSucceeds ==
    Cardinality({r \in ClaimIds : claims[r].response = "200 ok"}) <= 1

\* C30: an invocation that took the lock is followed by a moment at which
\* the lock is free and the draw button enabled.
C30_LockEventuallyReleased ==
    \A i \in InvocationIds :
        (lockOwner = i) ~> (~isSpinning /\ ~drawButtonDisabled)

====
